---- MODULE Spec2Model ----
(***************************************************************************)
(* A model of the process, scheduling and pipe code of ark-rust-kernel.   *)
(*                                                                         *)
(* One hart runs the worker loop and the kernel half of one process at a   *)
(* time.  An action is one kernel segment: a trap (system call, page      *)
(* fault, timer interrupt) from its entry up to the next context_switch    *)
(* or up to the return to user mode.                                       *)
(*                                                                         *)
(* Encodings                                                               *)
(*   Option<T>      None is << >>, Some(x) is <<x>>                        *)
(*   Arc<Process>   the pid of the object (pids of live objects differ)    *)
(*   Weak<Process>  the pid of the object, or DeadWeak once it is dropped  *)
(*   BTreeMap, Vec  functions and sequences                                *)
(*   addresses      page aligned bounds are kept as page ids, because the  *)
(*                  byte value 0x8000_0000 exceeds the model's integers    *)
(***************************************************************************)
EXTENDS Integers, Sequences, FiniteSets, TLC

VARIABLES
    process_list,            \* ProcessManager.process_list: pid -> Process
    previous_scheduled_pid,  \* ProcessManager.previous_scheduled_pid
    cpu_proc,                \* CPU.proc of the hart: Option<Arc<Process>>
    PID_ALLOCATOR,           \* RecycleAllocator: [max, free]
    PAGE_ALLOCATOR,          \* frames handed out: set of <<first, count>>
    nfiles,                  \* number of File objects opened so far
    panic,                   \* "" or the message of the failed assertion
    pipe,                    \* the PipeBuffer of the pipe under study
    written,                 \* history: the bytes each PipeBuffer::write took
    delivered,               \* history: the bytes each PipeFile::read returned
    picks,                   \* history: pids chosen by the scheduler
    timer,                   \* the clock in ticks, the next trigger, TIMER_CONDVAR
    phys,                    \* physical memory: frame -> content, where not zero
    calls,                   \* history: system calls and faults counted so far
    cpus,                    \* CPUS at the level of lock operations: per hart
    locks,                   \* Spinlock.lock of every lock: the stack holding it
    tasks,                   \* the Process objects as the harts' steps see them
    manager,                 \* PROCESS_MANAGER as the harts' steps see it
    interrupts,              \* history: timer interrupts taken so far
    spawned                  \* history: number of Process objects created so far

vars == <<process_list, previous_scheduled_pid, cpu_proc, PID_ALLOCATOR,
          PAGE_ALLOCATOR, nfiles, panic, pipe, written, delivered, picks, timer,
          phys, calls, cpus, locks, tasks, manager, interrupts, spawned>>

\* the state of the study of several harts
hartvars == <<cpus, locks, tasks, manager, interrupts>>

-----------------------------------------------------------------------------
(* Bounds of the model *)

MaxProcs == 3          \* Process objects created in a run, init included
TotalFrames == 4096    \* frames of the machine's usable memory
MaxOpens == 2          \* files opened in the fork study
MaxRegVal == 1         \* largest value user code leaves in a register
MaxPicks == 8          \* scheduler picks recorded (K)
MaxPipeCalls == 2      \* writes, and reads that return, on the pipe
MaxPipeProcs == 2      \* Process objects created in the pipe study
MaxTime == 4           \* ticks the clock is followed for
MaxSleepProcs == 2     \* Process objects created in the sleep study
MaxMemProcs == 2       \* Process objects created in the memory study
MaxMemCalls == 3       \* memory system calls, faults and stores in a run
MaxBrkPage == 24       \* highest page the break is moved to
MaxStackPages == 3     \* pages the user stack grows to
NumHarts == 2          \* harts of the machine in the study of several harts
MaxHartProcs == 2      \* Process objects created in the study of several harts
MaxInterrupts == 1     \* timer interrupts taken in the study of several harts
MaxHartCalls == 3      \* system calls made in the study of several harts
MaxHartPipeCalls == 4  \* system calls made in the study of the pipe on several harts
MaxIntrDepth == 4      \* depth of the interrupt bracket of a hart
MaxPtCalls == 4        \* calls of the page table study
MaxFrameProcs == 3     \* Process objects created in the study of frames
MaxPidProcs == 5       \* Process objects created in the study of pids
MaxBootHarts == 3      \* harts that enter startup in the study of the boot
MaxArgs == 2           \* strings in argv and in env of an execve

(* Program constants *)

PAGE_SIZE == 4096
PROCESS_KERNEL_STACK_SIZE == 512
KERNEL_SPACE_BASE_PAGE == 524288       \* 0x8000_0000 / PAGE_SIZE
PROCESS_USER_STACK_BASE_PAGE == KERNEL_SPACE_BASE_PAGE
PROCESS_MAX_USER_STACK_PAGES == 131072 \* 0x2000_0000 / PAGE_SIZE
PROCESS_MMAP_BASE_PAGE == PROCESS_USER_STACK_BASE_PAGE - PROCESS_MAX_USER_STACK_PAGES
WNOHANG == 1
SIGCHLD == 17
Syscall_chdir == 49
Syscall_openat == 56
Syscall_exit == 93
Syscall_sched_yield == 124
Syscall_uname == 160
Syscall_getppid == 173
Syscall_clone == 220
Syscall_brk == 214
Syscall_munmap == 215
Syscall_execve == 221
Syscall_mmap == 222
Syscall_wait4 == 260
Syscall_ark_sleep_ticks == 1002
PIPE_SIZE == 512

-----------------------------------------------------------------------------
(* Option, Weak and small helpers *)

None == << >>
Some(x) == <<x>>
IsSome(o) == o # << >>
Unwrap(o) == o[1]

DeadWeak == 0

EmptyMap == [x \in {} |-> x]

MinOf(S) == CHOOSE x \in S : \A y \in S : x <= y

MaxOf(S) == CHOOSE x \in S : \A y \in S : y <= x

RECURSIVE SortedSeq(_)
SortedSeq(S) == IF S = {} THEN << >> ELSE <<MinOf(S)>> \o SortedSeq(S \ {MinOf(S)})

Reverse(s) == [i \in 1..Len(s) |-> s[Len(s) + 1 - i]]

SeqRange(s) == {s[i] : i \in 1..Len(s)}

\* F applied to the value of v, which is computed once
Bind(v, F(_)) == CHOOSE r \in {F(x) : x \in {v}} : TRUE

Ok(v) == [ok |-> TRUE, v |-> v, err |-> ""]
Err(e) == [ok |-> FALSE, v |-> 0, err |-> e]

-----------------------------------------------------------------------------
(* Frame allocator: PAGE_ALLOCATOR, PhyPage *)

RunFree(used, s, n) ==
    /\ s + n <= TotalFrames
    /\ \A iv \in used : s + n <= iv[1] \/ iv[1] + iv[2] <= s

\* PAGE_ALLOCATOR.lock().alloc(n): the first frame of a free run of n frames.
\* The allocator is deterministic; the model takes the lowest free run.
AllocStart(used, n) ==
    LET cand == {0} \cup {iv[1] + iv[2] : iv \in used}
    IN  MinOf({s \in cand : RunFree(used, s, n)})

CanAlloc(used, n) ==
    \E s \in {0} \cup {iv[1] + iv[2] : iv \in used} : RunFree(used, s, n)

\* PhyPage::alloc(): one frame
PhyPageAlloc(used) ==
    Bind(AllocStart(used, 1), LAMBDA f : [used |-> used \cup {<<f, 1>>}, page |-> f])

\* PhyPage::alloc_many(count): count contiguous frames, held in one Vec
PhyPageAllocMany(used, count) ==
    Bind(AllocStart(used, count),
         LAMBDA f : [used |-> used \cup {<<f, count>>}, page |-> f])

\* Drop for PhyPage, for every frame of the set
PhyPageDrop(used, frames) == {iv \in used : iv[1] \notin frames}

FrameIsFree(used, f) == \A iv \in used : ~(iv[1] <= f /\ f < iv[1] + iv[2])

\* the content of frame f: one value stands for its 4 KiB
Content(ph, f) == IF f \in DOMAIN ph THEN ph[f] ELSE 0

\* PhyPage::copy_u8(0, data) of a whole page, and a user store to the page
CopyU8(ph, f, c) ==
    IF c = 0 THEN [g \in DOMAIN ph \ {f} |-> ph[g]] ELSE (f :> c) @@ ph

\* the write_bytes(addr, 0, PAGE_SIZE) of PhyPage::alloc, for each of frames
WriteBytes(ph, frames) == [g \in DOMAIN ph \ frames |-> ph[g]]

-----------------------------------------------------------------------------
(* Page table (Sv39) *)

Idx0(vpn) == vpn \div (512 * 512)
Idx1(vpn) == (vpn \div 512) % 512

\* PageTable::new
PageTableNew(used) ==
    Bind(PhyPageAlloc(used),
         LAMBDA a : [used |-> a.used,
                     pt |-> [entries |-> a.page, pages |-> <<a.page>>,
                             tables |-> EmptyMap, ptes |-> EmptyMap, big |-> {}]])

\* one level of PageTable::find_pte_create: the interior table at key is
\* allocated when its entry is not valid
NextLevel(s, key) ==
    IF key \in DOMAIN s.pt.tables
    THEN s
    ELSE Bind(PhyPageAlloc(s.used),
              LAMBDA a : [used |-> a.used,
                          pt |-> [s.pt EXCEPT !.tables = (key :> a.page) @@ s.pt.tables,
                                              !.pages = Append(s.pt.pages, a.page)]])

\* PageTable::find_pte_create
FindPteCreate(used, pt, vpn) ==
    Bind(NextLevel([used |-> used, pt |-> pt], <<Idx0(vpn)>>),
         LAMBDA s0 : NextLevel(s0, <<Idx0(vpn), Idx1(vpn)>>))

\* PageTable::prepare_flags
PrepareFlags(flags) ==
    flags \cup (IF "R" \in flags THEN {"A"} ELSE {})
          \cup (IF "W" \in flags THEN {"D"} ELSE {}) \cup {"V"}

\* PageTable::map (set_pte asserts that the entry is not valid yet)
PageTableMap(used, pt, vpn, frame, flags) ==
    Bind(FindPteCreate(used, pt, vpn),
         LAMBDA s : [used |-> s.used,
                     pt |-> [s.pt EXCEPT !.ptes = (vpn :> <<frame, PrepareFlags(flags)>>)
                                                     @@ s.pt.ptes]])

\* PageTable::map_big: the 1 GiB kernel entry in the root table
PageTableMapBig(pt, vpn) == [pt EXCEPT !.big = pt.big \cup {Idx0(vpn)}]

\* PageTable::to_satp: mode Sv39 (8) and the root frame
ToSatp(pt) == <<8, pt.entries>>

-----------------------------------------------------------------------------
(* ProcessMemory *)

\* ProcessMemory::new
ProcessMemoryNew(used) ==
    Bind(PageTableNew(used),
         LAMBDA t : [used |-> t.used,
                     mem |-> [page_table |-> PageTableMapBig(t.pt, KERNEL_SPACE_BASE_PAGE),
                              maps |-> EmptyMap,
                              prog_end |-> 0, min_brk |-> 0, brk |-> 0,
                              stack_base |-> PROCESS_USER_STACK_BASE_PAGE,
                              stack_top |-> PROCESS_USER_STACK_BASE_PAGE,
                              mmap_base |-> PROCESS_MMAP_BASE_PAGE]])

\* ProcessMemory::map
MemoryMap(used, mem, vpn, page, flags) ==
    Bind(PageTableMap(used, mem.page_table, vpn, page, flags),
         LAMBDA t : [used |-> t.used,
                     mem |-> [mem EXCEPT !.page_table = t.pt,
                                         !.maps = (vpn :> <<page, flags>>) @@ mem.maps]])

\* ProcessMemory::increase_user_stack
IncreaseUserStack(used, mem) ==
    Bind(PhyPageAlloc(used), LAMBDA a :
    Bind(MemoryMap(a.used, mem, mem.stack_top - 1, a.page, {"U", "W", "R"}), LAMBDA m :
         [used |-> m.used, mem |-> [m.mem EXCEPT !.stack_top = mem.stack_top - 1]]))

\* ProcessMemory::is_mapped
IsMapped(mem, vpn) == vpn \in DOMAIN mem.maps

\* an alloc_stack_if_possible that grows the stack for any unmapped page
AllocStackAnywhere(used, mem, vpn) ==
    IF ~(vpn \in DOMAIN mem.maps)
    THEN Bind(PhyPageAlloc(used), LAMBDA a :
         Bind(MemoryMap(a.used, mem, vpn, a.page, {"U", "W", "R"}), LAMBDA m :
              [used |-> m.used, mem |-> [m.mem EXCEPT !.stack_top = mem.stack_top - 1],
               ok |-> TRUE]))
    ELSE [used |-> used, mem |-> mem, ok |-> FALSE]

\* ProcessMemory::alloc_stack_if_possible, for a fault in page vpn
AllocStackIfPossible(used, mem, vpn) ==
    IF vpn = mem.stack_top - 1 /\ ~IsMapped(mem, vpn)
    THEN Bind(IncreaseUserStack(used, mem),
              LAMBDA s : [used |-> s.used, mem |-> s.mem, ok |-> TRUE])
    ELSE [used |-> used, mem |-> mem, ok |-> FALSE]

\* a copy that maps the pages of the child to the frames of the parent
RECURSIVE CopyPagesShared(_, _, _)
CopyPagesShared(s, other, vpns) ==
    IF vpns = << >> THEN s
    ELSE Bind(MemoryMap(s.used, s.mem, Head(vpns), other.maps[Head(vpns)][1],
                        other.maps[Head(vpns)][2]), LAMBDA m :
              CopyPagesShared(m, other, Tail(vpns)))

\* the loop of ProcessMemory::copy_from over other.maps, in key order; s is
\* the allocator and the memory of the child so far
RECURSIVE CopyPages(_, _, _)
CopyPages(s, other, vpns) ==
    IF vpns = << >> THEN s
    ELSE Bind(PhyPageAlloc(s.used), LAMBDA child_page :
         Bind(MemoryMap(child_page.used, s.mem, Head(vpns), child_page.page,
                        other.maps[Head(vpns)][2]), LAMBDA m :
              CopyPages(m, other, Tail(vpns))))

\* ProcessMemory::copy_from
CopyFrom(used, mem, other) ==
    Bind([used |-> used,
          mem |-> [mem EXCEPT !.stack_top = other.stack_top,
                              !.stack_base = other.stack_base,
                              !.brk = other.brk,
                              !.prog_end = other.prog_end]],
         LAMBDA s : CopyPages(s, other, SortedSeq(DOMAIN other.maps)))

\* the contents after the loop of ProcessMemory::copy_from: each frame of the
\* child is cleared by PhyPage::alloc, then filled from the parent's frame
RECURSIVE CopyContents(_, _, _, _)
CopyContents(ph, mem, other, vpns) ==
    IF vpns = << >> THEN ph
    ELSE Bind(WriteBytes(ph, {mem.maps[Head(vpns)][1]}), LAMBDA cleared :
              CopyContents(CopyU8(cleared, mem.maps[Head(vpns)][1],
                                  Content(cleared, other.maps[Head(vpns)][1])),
                           mem, other, Tail(vpns)))

UserFrames(mem) == {mem.maps[v][1] : v \in DOMAIN mem.maps}

\* the frames of the page table of mem: each came from PhyPage::alloc
TableFrames(mem) == SeqRange(mem.page_table.pages)

\* a reset that installs the new table and forgets to clear the maps
MemoryResetKeepsMaps(used, mem) ==
    Bind(PageTableNew(used),
         LAMBDA t : [used |-> PhyPageDrop(t.used, SeqRange(mem.page_table.pages)),
                     mem |-> [mem EXCEPT !.page_table =
                                 PageTableMapBig(t.pt, KERNEL_SPACE_BASE_PAGE)]])

\* ProcessMemory::reset: the new table is allocated first, then the maps and
\* the old table are dropped
MemoryReset(used, mem) ==
    Bind(PageTableNew(used),
         LAMBDA t : [used |-> PhyPageDrop(t.used, UserFrames(mem)
                                                    \cup SeqRange(mem.page_table.pages)),
                     mem |-> [page_table |-> PageTableMapBig(t.pt, KERNEL_SPACE_BASE_PAGE),
                              maps |-> EmptyMap,
                              prog_end |-> 0, min_brk |-> mem.min_brk, brk |-> 0,
                              stack_base |-> PROCESS_USER_STACK_BASE_PAGE,
                              stack_top |-> PROCESS_USER_STACK_BASE_PAGE,
                              mmap_base |-> PROCESS_MMAP_BASE_PAGE]])

\* Drop of a ProcessMemory: every frame of the maps and of the page table
MemoryDrop(used, mem) ==
    PhyPageDrop(used, UserFrames(mem) \cup SeqRange(mem.page_table.pages))

-----------------------------------------------------------------------------
(* Pid: RecycleAllocator *)

\* RecycleAllocator::alloc
RecycleAlloc(a) ==
    IF a.free # << >>
    THEN [a |-> [a EXCEPT !.free = SubSeq(a.free, 1, Len(a.free) - 1)],
          id |-> a.free[Len(a.free)]]
    ELSE [a |-> [a EXCEPT !.max = a.max + 1], id |-> a.max + 1]

\* only the first assertion of RecycleAllocator::free
RecycleFreeAssertsMax(a, id) == id <= a.max

\* the two assertions at the head of RecycleAllocator::free
RecycleFreeAsserts(a, id) == id <= a.max /\ id \notin SeqRange(a.free)

\* RecycleAllocator::free (Drop for Pid), past its assertions
RecycleFree(a, id) == [a EXCEPT !.free = Append(a.free, id)]

-----------------------------------------------------------------------------
(* TrapContext, registers *)

Regs == 0..31
TrapContext_sp == 2
TrapContext_s1 == 9
TrapContext_a0 == 10
TrapContext_a1 == 11
TrapContext_a2 == 12
TrapContext_a7 == 17

\* The user registers trap_save_u stores into the TrapContext at an ecall:
\* a7 holds the syscall id, a0..a2 the arguments, s1 a value of the program.
UserRegs(id, x0, x1, x2, s1) ==
    [r \in Regs |-> CASE r = TrapContext_a7 -> id
                      [] r = TrapContext_a0 -> x0
                      [] r = TrapContext_a1 -> x1
                      [] r = TrapContext_a2 -> x2
                      [] r = TrapContext_s1 -> s1
                      [] OTHER -> 0]

\* user_trap_handler, Exception::UserEnvCall: the saved context of an ecall
\* at u.pc, with sepc advanced past it
EnvCall(tc, u, id, x0, x1, x2) ==
    [tc EXCEPT !.reg = UserRegs(id, x0, x1, x2, u.s1), !.sepc = u.pc + 4]

\* a copy of the full TrapContext, kernel_sp and satp included
TrapContextCopyAll(self, other) == other

\* TrapContext::copy_from
TrapContextCopyFrom(self, other) ==
    [self EXCEPT !.sepc = other.sepc, !.reg = other.reg]

\* the usize a SyscallResult becomes in a0 (syscall_handler); the errno
\* values are POSIX's
Errno(e) == CASE e = "ECHILD" -> 10 [] e = "EIO" -> 5 [] e = "EPERM" -> 1
              [] e = "EBADF" -> 9 [] e = "ENOMEM" -> 12 [] OTHER -> 0

SyscallRet(r) == IF r.ok THEN r.v ELSE 0 - Errno(r.err)

-----------------------------------------------------------------------------
(* Process *)

\* the locals of a kernel segment: the arguments wait_for and the pipe's read
\* and write keep across their do_yield, and the result the call gave last
NoFrame == [pid |-> 0, option |-> 0, ret |-> Ok(0), len |-> 0, buf |-> << >>,
            current_ticks |-> 0, ticks |-> 0]

Stdin == [dev |-> "stdin", id |-> 0]
Stdout == [dev |-> "stdout", id |-> 0]
OpenedFile(k) == [dev |-> "file", id |-> k]

\* the kernel_sp Process::new derives from the first frame of the kernel stack
KernelSp(kernel_stack) ==
    (kernel_stack + PROCESS_KERNEL_STACK_SIZE - 1) * PAGE_SIZE
        + PAGE_SIZE * PROCESS_KERNEL_STACK_SIZE

\* Process::new.  stale is the content alloc_many leaves in the kernel stack
\* frame that holds the TrapContext: the frames are not cleared.
ProcessNew(used, pids, stale) ==
    Bind(RecycleAlloc(pids), LAMBDA pid :
    Bind(PhyPageAllocMany(used, PROCESS_KERNEL_STACK_SIZE), LAMBDA kernel_stack :
    Bind(KernelSp(kernel_stack.page), LAMBDA kernel_sp :
    Bind(ProcessMemoryNew(kernel_stack.used), LAMBDA memory :
         [used |-> memory.used,
          pids |-> pid.a,
          pid |-> pid.id,
          data |-> [status |-> "Ready",
                    exit_code |-> 0,
                    parent |-> None,
                    children |-> << >>,
                    kernel_stack |-> kernel_stack.page,
                    kernel_task_context |-> [ra |-> "user_trap_returner", sp |-> kernel_sp],
                    frame |-> NoFrame,
                    memory |-> memory.mem,
                    cwd |-> "/",
                    files |-> <<Some(Stdin), Some(Stdout), Some(Stdout)>>,
                    condvar_waiting_for_exit |-> << >>,
                    trap_context |-> [reg |-> [r \in Regs |-> stale],
                                      satp |-> ToSatp(memory.mem.page_table),
                                      sepc |-> stale,
                                      sstatus |-> stale,
                                      kernel_sp |-> kernel_sp],
                    wstatus |-> 0]]))))

\* Drop for Process: the kernel stack, the memory and the pid are released and
\* every Weak that designates the object stops upgrading
ClearWeak(s, pid) == [i \in 1..Len(s) |-> IF s[i] = pid THEN DeadWeak ELSE s[i]]

ForgetProcess(d, pid) ==
    [d EXCEPT !.parent = IF @ = Some(pid) THEN Some(DeadWeak) ELSE @,
              !.children = ClearWeak(@, pid),
              !.condvar_waiting_for_exit = ClearWeak(@, pid)]

ProcessDrop(used, d) ==
    MemoryDrop(PhyPageDrop(used, {d.kernel_stack}), d.memory)

-----------------------------------------------------------------------------
(* Condvar *)

\* Condvar::wakeup: the list is drained; every process that still exists
\* becomes Ready
CondvarWakeup(list, table) ==
    [q \in DOMAIN table |->
        IF q \in SeqRange(list) THEN [table[q] EXCEPT !.status = "Ready"] ELSE table[q]]

\* a yield_process that makes every process Ready
YieldProcessAny(d) == [d EXCEPT !.status = "Ready"]

\* yield_process
YieldProcess(d) == [d EXCEPT !.status = IF @ = "Running" THEN "Ready" ELSE @]

-----------------------------------------------------------------------------
(* ProcessManager::scheduler *)

ReadyPids(table) == {q \in DOMAIN table : table[q].status = "Ready"}

\* a scheduler that always takes the lowest Ready pid
SchedulerLowest(table, prev) ==
    IF ReadyPids(table) # {} THEN Some(MinOf(ReadyPids(table))) ELSE None

\* the next Ready pid above previous_scheduled_pid, else the lowest Ready pid
Scheduler(table, prev) ==
    LET bebind == {q \in ReadyPids(table) : q > prev}
        before == {q \in ReadyPids(table) : q <= prev}
    IN  IF bebind # {} THEN Some(MinOf(bebind))
        ELSE IF before # {} THEN Some(MinOf(before))
        ELSE None

\* worker: one iteration that finds a process; the hart leaves its idle
\* context for the process's kernel_task_context
Worker(record) ==
    /\ panic = ""
    /\ cpu_proc = None
    /\ LET proc == Scheduler(process_list, previous_scheduled_pid)
       IN  /\ IsSome(proc)
           /\ previous_scheduled_pid' = Unwrap(proc)
           /\ process_list' = [process_list EXCEPT ![Unwrap(proc)].status = "Running"]
           /\ cpu_proc' = proc
           /\ picks' = IF record
                       THEN Append(picks, [pid |-> Unwrap(proc),
                                           n |-> Cardinality(DOMAIN process_list)])
                       ELSE picks
    /\ UNCHANGED <<hartvars, phys, calls, PID_ALLOCATOR, PAGE_ALLOCATOR, nfiles, panic, pipe, written, delivered, spawned,
                   timer>>

\* the running process p is in user mode
InUser(p) ==
    /\ panic = ""
    /\ cpu_proc = Some(p)
    /\ process_list[p].kernel_task_context.ra = "user_trap_returner"

\* the running process p resumes in the kernel after the do_yield of f
InKernel(p, f) ==
    /\ panic = ""
    /\ cpu_proc = Some(p)
    /\ process_list[p].kernel_task_context.ra = f

\* do_yield by the current process, which resumes at ra
DoYield(d, ra) == [YieldProcess(d) EXCEPT !.kernel_task_context.ra = ra]

\* sched_yield (yield_): do_yield, then Ok(0)
SchedYield(p, u) ==
    /\ InUser(p)
    /\ LET d == [process_list[p] EXCEPT
                    !.trap_context = EnvCall(@, u, Syscall_sched_yield, 0, 0, 0),
                    !.frame.ret = Ok(0)]
       IN  process_list' = [process_list EXCEPT ![p] = DoYield(d, "syscall_ret")]
    /\ cpu_proc' = None
    /\ UNCHANGED <<hartvars, phys, calls, previous_scheduled_pid, PID_ALLOCATOR, PAGE_ALLOCATOR, nfiles,
                   panic, pipe, written, delivered, picks, spawned,
                   timer>>

\* timer::init: set_next_trigger; TIMER_CONDVAR is empty
TimerInit == [time |-> 0, cmp |-> 1, waiting_list |-> << >>]

\* set_next_trigger: the next interrupt is due one tick from now
SetNextTrigger(t) == [t EXCEPT !.cmp = t.time + 1]

\* what timer::handler does to the timer: set_next_trigger and
\* TIMER_CONDVAR.wakeup(), which drains the list
TimerHandler(t) == [SetNextTrigger(t) EXCEPT !.waiting_list = << >>]

\* timer::handler for an interrupt taken in user mode: set_next_trigger,
\* TIMER_CONDVAR.wakeup(), do_yield
TimerYield(p) ==
    /\ InUser(p)
    /\ timer' = TimerHandler(timer)
    /\ process_list' = [CondvarWakeup(timer.waiting_list, process_list) EXCEPT
                           ![p] = DoYield(@, "timer")]
    /\ cpu_proc' = None
    /\ UNCHANGED <<hartvars, phys, calls, previous_scheduled_pid, PID_ALLOCATOR, PAGE_ALLOCATOR, nfiles,
                   panic, pipe, written, delivered, picks, spawned>>

\* timer::handler for an interrupt taken by the hart while it runs no process
\* (the loop of worker, wfi included): no do_yield
TimerIdle ==
    /\ panic = ""
    /\ cpu_proc = None
    /\ timer' = TimerHandler(timer)
    /\ process_list' = CondvarWakeup(timer.waiting_list, process_list)
    /\ UNCHANGED <<hartvars, phys, calls, previous_scheduled_pid, cpu_proc, PID_ALLOCATOR, PAGE_ALLOCATOR,
                   nfiles, panic, pipe, written, delivered, picks, spawned>>

\* the return to user mode of a process that resumes after do_yield: the
\* syscall's result goes to a0 (nothing does after a timer interrupt)
ReturnToUser(p) ==
    /\ \/ InKernel(p, "syscall_ret")
       \/ InKernel(p, "timer")
    /\ process_list' = [process_list EXCEPT
          ![p].trap_context.reg[TrapContext_a0] =
               IF process_list[p].kernel_task_context.ra = "syscall_ret"
               THEN SyscallRet(process_list[p].frame.ret) ELSE @,
          ![p].kernel_task_context.ra = "user_trap_returner"]
    /\ UNCHANGED <<hartvars, phys, calls, previous_scheduled_pid, cpu_proc, PID_ALLOCATOR, PAGE_ALLOCATOR,
                   nfiles, panic, pipe, written, delivered, picks, spawned,
                   timer>>

-----------------------------------------------------------------------------
(* fork *)

\* ProcessManager::spawn and ProcessManager::fork
Fork(table, used, pids, parent, stale) ==
    Bind(ProcessNew(used, pids, stale), LAMBDA new :
    Bind(CopyFrom(new.used, new.data.memory, table[parent].memory), LAMBDA mem :
         [table |-> (new.pid :> [new.data EXCEPT
                         !.parent = Some(parent),
                         !.memory = mem.mem,
                         !.status = "Ready",
                         !.cwd = table[parent].cwd,
                         !.trap_context =
                             [TrapContextCopyFrom(@, table[parent].trap_context)
                                 EXCEPT !.reg[TrapContext_a0] = 0]])
                    @@ [table EXCEPT ![parent].children = Append(@, new.pid)],
          used |-> mem.used,
          pids |-> new.pids,
          child |-> new.pid]))

\* clone: fork, then do_yield of the parent, then Ok(child_pid)
Clone(p, u, stale) ==
    /\ InUser(p)
    /\ \E entered \in {[process_list EXCEPT
                           ![p].trap_context = EnvCall(@, u, Syscall_clone, SIGCHLD, 0, 0)]} :
       \E f \in {Fork(entered, PAGE_ALLOCATOR, PID_ALLOCATOR, p, stale)} :
          /\ process_list' = [f.table EXCEPT
                 ![p] = DoYield([@ EXCEPT !.frame.ret = Ok(f.child)], "syscall_ret")]
          /\ PAGE_ALLOCATOR' = f.used
          /\ PID_ALLOCATOR' = f.pids
          /\ phys' = CopyContents(WriteBytes(phys, TableFrames(f.table[f.child].memory)),
                                  f.table[f.child].memory, entered[p].memory,
                                  SortedSeq(DOMAIN entered[p].memory.maps))
    /\ cpu_proc' = None
    /\ spawned' = spawned + 1
    /\ UNCHANGED <<hartvars, calls, previous_scheduled_pid, nfiles, panic, pipe, written, delivered, picks,
                   timer>>

-----------------------------------------------------------------------------
(* exit *)

\* ProcessManager::exit, for a process other than init
ProcessExit(table, used, p, exit_code) ==
    Bind(MemoryReset(used, table[p].memory), LAMBDA mem :
    Bind([table EXCEPT
             ![p] = [@ EXCEPT !.status = "Zombie",
                              !.exit_code = exit_code,
                              !.memory = mem.mem,
                              !.children = << >>,
                              !.condvar_waiting_for_exit = << >>],
             ![1].children = @ \o Reverse(table[p].children)], LAMBDA reparented :
         [table |-> CondvarWakeup(table[p].condvar_waiting_for_exit, reparented),
          used |-> mem.used]))

\* exit: ProcessManager::exit, then do_yield; init's exit fails the assertion
Exit(p, u, code) ==
    /\ InUser(p)
    /\ IF p = 1
       THEN /\ panic' = "Init process want exit!"
            /\ UNCHANGED <<process_list, PAGE_ALLOCATOR, cpu_proc>>
       ELSE \E entered \in {[process_list EXCEPT
                                ![p].trap_context = EnvCall(@, u, Syscall_exit, code, 0, 0)]} :
            \E x \in {ProcessExit(entered, PAGE_ALLOCATOR, p, code)} :
                /\ process_list' = [x.table EXCEPT ![p] = DoYield(@, "exit")]
                /\ PAGE_ALLOCATOR' = x.used
                /\ cpu_proc' = None
                /\ UNCHANGED panic
    /\ UNCHANGED <<hartvars, phys, calls, previous_scheduled_pid, PID_ALLOCATOR, nfiles, pipe, written,
                   delivered, picks, spawned,
                   timer>>

-----------------------------------------------------------------------------
(* wait4 *)

\* the first child of the list that is a Zombie and is the one waited for
FirstZombie(table, children, pid) ==
    LET hit == {i \in 1..Len(children) :
                   /\ table[children[i]].status = "Zombie"
                   /\ (pid = -1 \/ pid = children[i])}
    IN  IF hit = {} THEN None ELSE Some(children[MinOf(hit)])

\* a wait_for that stores the code and leaves the Zombie in the table
ReapLeavesEntry(table, used, pids, child) ==
    [table |-> table, used |-> used, pids |-> pids]

\* the process table and the allocators once the reaped child is dropped
Reap(table, used, pids, child) ==
    [table |-> [q \in DOMAIN table \ {child} |-> ForgetProcess(table[q], child)],
     used |-> ProcessDrop(used, table[child]),
     pids |-> RecycleFree(pids, child)]

\* a wait_for that ignores its option
NoHangIgnored(option) == FALSE

\* the test of the option after the scan of the children
NoHang(option) == option = WNOHANG

\* One pass of the loop of ProcessManager::wait_for by parent.  done says
\* whether the pass left the loop with ret; when it did not, the caller has
\* reached do_yield.
WaitFor(table, used, pids, parent, pid, option) ==
    Bind(SelectSeq(table[parent].children, LAMBDA w : w # DeadWeak), LAMBDA children :
    Bind([table EXCEPT ![parent].children = children], LAMBDA retained :
    Bind(FirstZombie(retained, children, pid), LAMBDA zombie :
         IF children = << >>
         THEN [table |-> retained, used |-> used, pids |-> pids,
               done |-> TRUE, ret |-> Err("ECHILD")]
         ELSE IF IsSome(zombie)
         THEN Reap([retained EXCEPT ![parent].wstatus = retained[Unwrap(zombie)].exit_code],
                   used, pids, Unwrap(zombie))
              @@ [done |-> TRUE, ret |-> Ok(Unwrap(zombie))]
         ELSE IF NoHang(option)
         THEN [table |-> retained, used |-> used, pids |-> pids,
               done |-> TRUE, ret |-> Ok(0)]
         ELSE IF pid > 0
         THEN IF pid \in DOMAIN retained
              THEN [table |-> [[retained EXCEPT ![parent].status = "Suspend"]
                                  EXCEPT ![pid].condvar_waiting_for_exit = Append(@, parent)],
                    used |-> used, pids |-> pids, done |-> FALSE, ret |-> Ok(0)]
              ELSE [table |-> retained, used |-> used, pids |-> pids,
                    done |-> TRUE, ret |-> Err("ECHILD")]
         ELSE [table |-> retained, used |-> used, pids |-> pids,
               done |-> FALSE, ret |-> Ok(0)])))

\* what a pass of wait_for leaves: the syscall's result in a0 and the return
\* to user mode, or the do_yield inside the loop
AfterWaitFor(w, p, pid, option) ==
    IF w.done
    THEN [w.table EXCEPT
             ![p].frame = [NoFrame EXCEPT !.ret = w.ret],
             ![p].trap_context.reg[TrapContext_a0] = SyscallRet(w.ret),
             ![p].kernel_task_context.ra = "user_trap_returner"]
    ELSE [w.table EXCEPT
             ![p] = DoYield([@ EXCEPT !.frame = [pid |-> pid, option |-> option,
                                                 ret |-> w.ret]], "wait_for")]

\* PageTable::translate (VirtAddr::into_pa) of a user address
Translate(mem, addr) ==
    IF addr \div PAGE_SIZE \in DOMAIN mem.page_table.ptes
    THEN Some(mem.page_table.ptes[addr \div PAGE_SIZE][1] * PAGE_SIZE + (addr % PAGE_SIZE))
    ELSE None

\* an address in the first page of the user stack, where the programs of the
\* life cycle studies keep the word wait4 fills
StatusBuf == (PROCESS_USER_STACK_BASE_PAGE - 1) * PAGE_SIZE + 8

\* wait4 (syscall wait_for) from user mode: exit_code_buf is translated and
\* unwrapped before ProcessManager::wait_for is called
SysWaitFor(p, u, pid, exit_code_buf, option) ==
    /\ InUser(p)
    /\ \E entered \in {[process_list EXCEPT
                           ![p].trap_context =
                               EnvCall(@, u, Syscall_wait4, pid, exit_code_buf, option)]} :
       IF ~IsSome(Translate(entered[p].memory, exit_code_buf))
       THEN /\ panic' = "called Option::unwrap() on a None value"
            /\ process_list' = entered
            /\ UNCHANGED <<PAGE_ALLOCATOR, PID_ALLOCATOR, cpu_proc>>
       ELSE \E w \in {WaitFor(entered, PAGE_ALLOCATOR, PID_ALLOCATOR, p, pid, option)} :
               /\ process_list' = AfterWaitFor(w, p, pid, option)
               /\ PAGE_ALLOCATOR' = w.used
               /\ PID_ALLOCATOR' = w.pids
               /\ cpu_proc' = IF w.done THEN cpu_proc ELSE None
               /\ UNCHANGED panic
    /\ UNCHANGED <<hartvars, phys, calls, previous_scheduled_pid, nfiles, pipe, written, delivered,
                   picks, spawned, timer>>

\* wait4 with the status word in the first page of the user stack
Wait4(p, u, pid, option) == SysWaitFor(p, u, pid, StatusBuf, option)

\* the next pass of the loop, when the waiting process is switched to again
WaitForRetry(p) ==
    /\ InKernel(p, "wait_for")
    /\ \E w \in {WaitFor(process_list, PAGE_ALLOCATOR, PID_ALLOCATOR, p,
                         process_list[p].frame.pid, process_list[p].frame.option)} :
          /\ process_list' = AfterWaitFor(w, p, process_list[p].frame.pid,
                                          process_list[p].frame.option)
          /\ PAGE_ALLOCATOR' = w.used
          /\ PID_ALLOCATOR' = w.pids
          /\ cpu_proc' = IF w.done THEN cpu_proc ELSE None
    /\ UNCHANGED <<hartvars, phys, calls, previous_scheduled_pid, nfiles, panic, pipe, written, delivered,
                   picks, spawned,
                   timer>>

\* getppid
ParentPid(d) ==
    IF IsSome(d.parent) /\ Unwrap(d.parent) # DeadWeak THEN Unwrap(d.parent) ELSE 0

GetPpid(p, u) ==
    /\ InUser(p)
    /\ process_list' = [process_list EXCEPT
          ![p].trap_context =
               [EnvCall(@, u, Syscall_getppid, 0, 0, 0) EXCEPT
                   !.reg[TrapContext_a0] = SyscallRet(Ok(ParentPid(process_list[p])))],
          ![p].frame.ret = Ok(ParentPid(process_list[p]))]
    /\ UNCHANGED <<hartvars, phys, calls, previous_scheduled_pid, cpu_proc, PID_ALLOCATOR, PAGE_ALLOCATOR,
                   nfiles, panic, pipe, written, delivered, picks, spawned,
                   timer>>

-----------------------------------------------------------------------------
(* Pipe: PipeBuffer and PipeFile *)

\* PipeBuffer::new; data holds the cells written so far, the others are 0
PipeBufferNew ==
    [data |-> EmptyMap, n_read |-> 0, n_write |-> 0,
     read_open |-> FALSE, write_open |-> FALSE,
     wait_read |-> << >>, wait_write |-> << >>]

\* PipeFile::create
PipeFileCreate == [PipeBufferNew EXCEPT !.write_open = TRUE, !.read_open = TRUE]

\* self.data[x]
DataAt(data, x) == IF x \in DOMAIN data THEN data[x] ELSE 0

\* PipeBuffer::read into a buffer of len bytes; woken is the list that
\* wait_write.wakeup() drains
PipeBufferRead(b, len) ==
    IF b.n_read = b.n_write
    THEN [buffer |-> b, result |-> IF b.write_open THEN Some(0) ELSE None,
          bytes |-> << >>, woken |-> << >>]
    ELSE Bind(MinOf({len, b.n_write - b.n_read}), LAMBDA i :
              [buffer |-> [b EXCEPT !.n_read = @ + i,
                                    !.wait_write = IF i # 0 THEN << >> ELSE @],
               result |-> Some(i),
               bytes |-> [k \in 1..i |-> DataAt(b.data, (b.n_read + k - 1) % PIPE_SIZE)],
               woken |-> IF i # 0 THEN b.wait_write ELSE << >>])

\* the number of iterations of the loop of PipeBuffer::write before its break
WroteBytes(b, n) ==
    IF \E j \in 0..(n - 1) : (b.n_write + j + 1) = (b.n_read + PIPE_SIZE) % PIPE_SIZE
    THEN MinOf({j \in 0..(n - 1) :
                   (b.n_write + j + 1) = (b.n_read + PIPE_SIZE) % PIPE_SIZE})
    ELSE n

\* the last iteration below wrote that stores into cell x, or -1
LastStore(b, wrote, x) ==
    Bind((x + PIPE_SIZE - (b.n_write % PIPE_SIZE)) % PIPE_SIZE, LAMBDA first :
         IF first < wrote
         THEN first + PIPE_SIZE * ((wrote - 1 - first) \div PIPE_SIZE)
         ELSE -1)

\* PipeBuffer::write; woken is the list that wait_read.wakeup() drains
PipeBufferWrite(b, buf) ==
    Bind(WroteBytes(b, Len(buf)), LAMBDA wrote_bytes :
         [buffer |-> [b EXCEPT
              !.data = [x \in DOMAIN b.data
                                 \cup {(b.n_write + j) % PIPE_SIZE : j \in 0..(wrote_bytes - 1)}
                           |-> IF LastStore(b, wrote_bytes, x) >= 0
                               THEN buf[LastStore(b, wrote_bytes, x) + 1]
                               ELSE b.data[x]],
              !.n_write = @ + wrote_bytes,
              !.wait_read = IF wrote_bytes # 0 THEN << >> ELSE @],
          result |-> IF b.read_open THEN Some(wrote_bytes) ELSE None,
          bytes |-> SubSeq(buf, 1, wrote_bytes),
          woken |-> IF wrote_bytes # 0 THEN b.wait_read ELSE << >>])

\* Condvar::wait by the current process p, on the list
CondvarWait(list, p) == Append(list, p)

\* a reader that waits for more bytes even when no writer is left
ReadWaitsWithoutWriter(result, buffer) == result = Some(0)

\* the test after which the loop of PipeFile::read waits
ReadMustWait(result, buffer) == result = Some(0) /\ buffer.write_open

\* One pass of the loop of PipeFile::read (Reader) by p with a buffer of len
\* bytes: it returns, or it waits on wait_write and reaches do_yield
ReadPass(p, len) ==
    \E r \in {PipeBufferRead(pipe, len)} :
    \E table \in {CondvarWakeup(r.woken, process_list)} :
       IF IsSome(r.result) /\ ReadMustWait(r.result, r.buffer)
       THEN /\ pipe' = [r.buffer EXCEPT !.wait_write = CondvarWait(@, p)]
            /\ process_list' = [table EXCEPT
                  ![p] = DoYield([@ EXCEPT !.status = "Suspend",
                                           !.frame = [NoFrame EXCEPT !.len = len]],
                                 "pipe_read")]
            /\ cpu_proc' = None
            /\ UNCHANGED delivered
       ELSE /\ pipe' = r.buffer
            /\ process_list' = [table EXCEPT
                  ![p].frame = [NoFrame EXCEPT
                      !.len = len,
                      !.ret = IF IsSome(r.result) THEN Ok(Unwrap(r.result))
                              ELSE Err("Read from a pipe no one could write.")],
                  ![p].kernel_task_context.ra = "user_trap_returner"]
            /\ delivered' = IF IsSome(r.result) THEN Append(delivered, r.bytes)
                            ELSE delivered
            /\ UNCHANGED cpu_proc

\* One pass of the loop of PipeFile::write (Writer) by p: buf is what is left
\* to write and total_wrote what earlier passes wrote
WritePass(p, buf, total_wrote) ==
    \E w \in {PipeBufferWrite(pipe, buf)} :
    \E table \in {CondvarWakeup(w.woken, process_list)} :
       /\ written' = Append(written, w.bytes)
       /\ IF IsSome(w.result) /\ Unwrap(w.result) # Len(buf)
          THEN /\ pipe' = [w.buffer EXCEPT !.wait_read = CondvarWait(@, p)]
               /\ process_list' = [table EXCEPT
                     ![p] = DoYield([@ EXCEPT
                                 !.status = "Suspend",
                                 !.frame = [NoFrame EXCEPT
                                     !.len = total_wrote + Unwrap(w.result),
                                     !.buf = SubSeq(buf, Unwrap(w.result) + 1, Len(buf))]],
                                    "pipe_write")]
               /\ cpu_proc' = None
          ELSE /\ pipe' = w.buffer
               /\ process_list' = [table EXCEPT
                     ![p].frame = [NoFrame EXCEPT
                         !.len = total_wrote + Len(buf),
                         !.ret = IF IsSome(w.result) THEN Ok(total_wrote + Len(buf))
                                 ELSE Err("Write to a pipe no one could read.")],
                     ![p].kernel_task_context.ra = "user_trap_returner"]
               /\ UNCHANGED cpu_proc

\* PipeFile::read on the read end, called for the running process p
PipeFileRead(p, len) ==
    /\ InUser(p)
    /\ pipe.read_open
    /\ ReadPass(p, len)
    /\ UNCHANGED <<hartvars, phys, calls, previous_scheduled_pid, PID_ALLOCATOR, PAGE_ALLOCATOR, nfiles, panic,
                   written, picks, spawned,
                   timer>>

\* PipeFile::write on the write end, called for the running process p
PipeFileWrite(p, buf) ==
    /\ InUser(p)
    /\ pipe.write_open
    /\ WritePass(p, buf, 0)
    /\ UNCHANGED <<hartvars, phys, calls, previous_scheduled_pid, PID_ALLOCATOR, PAGE_ALLOCATOR, nfiles, panic,
                   delivered, picks, spawned,
                   timer>>

\* the next pass of the loop, when the waiting process is switched to again
PipeFileResume(p) ==
    /\ \/ /\ InKernel(p, "pipe_read")
          /\ ReadPass(p, process_list[p].frame.len)
          /\ UNCHANGED written
       \/ /\ InKernel(p, "pipe_write")
          /\ WritePass(p, process_list[p].frame.buf, process_list[p].frame.len)
          /\ UNCHANGED delivered
    /\ UNCHANGED <<hartvars, phys, calls, previous_scheduled_pid, PID_ALLOCATOR, PAGE_ALLOCATOR, nfiles, panic,
                   picks, spawned,
                   timer>>

\* PipeFile::close of the end type_, called for the running process p
PipeFileClose(p, type_) ==
    /\ InUser(p)
    /\ IF type_ = "Reader"
       THEN /\ pipe.read_open
            /\ pipe' = [pipe EXCEPT !.read_open = FALSE, !.wait_write = << >>]
            /\ process_list' = CondvarWakeup(pipe.wait_write, process_list)
       ELSE /\ pipe.write_open
            /\ pipe' = [pipe EXCEPT !.write_open = FALSE, !.wait_read = << >>]
            /\ process_list' = CondvarWakeup(pipe.wait_read, process_list)
    /\ UNCHANGED <<hartvars, phys, calls, previous_scheduled_pid, cpu_proc, PID_ALLOCATOR, PAGE_ALLOCATOR,
                   nfiles, panic, written, delivered, picks, spawned,
                   timer>>

-----------------------------------------------------------------------------
(* openat and chdir *)

\* the directory tree: the paths DirEntry::from_path finds
Tree == {"/", "/mnt", "/mnt/f"}

\* DirEntry::from_path for an absolute path
FromPath(path, cwd) == IF path \in Tree THEN Some(path) ELSE None

\* ProcessData::allocate_fd: the lowest index that holds None, else a new
\* index at the end of the table
AllocateFd(files) ==
    IF \E i \in 1..Len(files) : files[i] = None
    THEN [fd |-> MinOf({i \in 1..Len(files) : files[i] = None}) - 1, files |-> files]
    ELSE [fd |-> Len(files), files |-> Append(files, None)]

\* file::open without O_CREAT; the new file object is the k-th one opened
Open(d, filename, k) ==
    IF IsSome(FromPath(filename, d.cwd))
    THEN Bind(AllocateFd(d.files), LAMBDA slot :
              [data |-> [d EXCEPT !.files = [slot.files EXCEPT
                                                ![slot.fd + 1] = Some(OpenedFile(k))]],
               ret |-> Ok(slot.fd)])
    ELSE [data |-> d, ret |-> Err("EIO")]

\* openat
OpenAt(p, u, filename) ==
    /\ InUser(p)
    /\ \E entered \in {[process_list[p] EXCEPT
                           !.trap_context = EnvCall(@, u, Syscall_openat, 0, 0, 0)]} :
       \E o \in {Open(entered, filename, nfiles + 1)} :
          /\ process_list' = [process_list EXCEPT
                ![p] = [o.data EXCEPT
                           !.frame.ret = o.ret,
                           !.trap_context.reg[TrapContext_a0] = SyscallRet(o.ret)]]
          /\ nfiles' = IF o.ret.ok THEN nfiles + 1 ELSE nfiles
    /\ UNCHANGED <<hartvars, phys, calls, previous_scheduled_pid, cpu_proc, PID_ALLOCATOR, PAGE_ALLOCATOR,
                   panic, pipe, written, delivered, picks, spawned,
                   timer>>

\* chdir
Chdir(p, u, path) ==
    /\ InUser(p)
    /\ \E entered \in {[process_list[p] EXCEPT
                           !.trap_context = EnvCall(@, u, Syscall_chdir, 0, 0, 0)]} :
       \E new_cwd \in {FromPath(path, entered.cwd)} :
       \E ret \in {IF IsSome(new_cwd) THEN Ok(0) ELSE Err("EPERM")} :
          process_list' = [process_list EXCEPT
             ![p] = [entered EXCEPT
                        !.cwd = IF IsSome(new_cwd) THEN Unwrap(new_cwd) ELSE @,
                        !.frame.ret = ret,
                        !.trap_context.reg[TrapContext_a0] = SyscallRet(ret)]]
    /\ UNCHANGED <<hartvars, phys, calls, previous_scheduled_pid, cpu_proc, PID_ALLOCATOR, PAGE_ALLOCATOR,
                   nfiles, panic, pipe, written, delivered, picks, spawned,
                   timer>>

-----------------------------------------------------------------------------
(* The initial process *)

\* the pages of the embedded init binary and its entry point
InitImagePages == {16}
InitEntry == 65536

\* the page loop of Process::load_elf for one PT_LOAD segment
RECURSIVE LoadPages(_, _, _)
LoadPages(s, vpns, flags) ==
    IF vpns = << >> THEN s
    ELSE Bind(PhyPageAlloc(s.used), LAMBDA page :
         Bind(MemoryMap(page.used, s.mem, Head(vpns), page.page, flags), LAMBDA m :
              LoadPages(m, Tail(vpns), flags)))

\* ProcessMemory::get_mapped_last_page
GetMappedLastPage(mem) ==
    IF {v \in DOMAIN mem.maps : v < mem.stack_top} = {} THEN 0
    ELSE MaxOf({v \in DOMAIN mem.maps : v < mem.stack_top})

\* load_from_elf, which loads the init binary: the segment, the break at the
\* last mapped page, the first stack page, the entry point
LoadFromElf(used, d, vpns, entry) ==
    Bind(LoadPages([used |-> used, mem |-> d.memory], SortedSeq(vpns),
                   {"U", "R", "W", "X"}), LAMBDA loaded :
    Bind(GetMappedLastPage(loaded.mem) * PAGE_SIZE, LAMBDA prog_end :
    Bind(IncreaseUserStack(loaded.used,
             [loaded.mem EXCEPT !.prog_end = prog_end, !.brk = prog_end]),
         LAMBDA stacked :
         [used |-> stacked.used,
          data |-> [d EXCEPT !.memory = stacked.mem, !.trap_context.sepc = entry]])))

\* Process::load_elf, which execve calls: the break and min_brk are the first
\* byte after the last mapped page
LoadElf(used, d, vpns, entry) ==
    Bind(LoadPages([used |-> used, mem |-> d.memory], SortedSeq(vpns),
                   {"U", "R", "W", "X"}), LAMBDA loaded :
    Bind((GetMappedLastPage(loaded.mem) + 1) * PAGE_SIZE, LAMBDA prog_end :
    Bind(IncreaseUserStack(loaded.used,
             [loaded.mem EXCEPT !.prog_end = prog_end, !.brk = prog_end,
                                !.min_brk = prog_end]), LAMBDA stacked :
         [used |-> stacked.used,
          data |-> [d EXCEPT !.memory = stacked.mem, !.trap_context.sepc = entry]])))

\* the content of every page of a program image
ImageContent == 1

\* the contents once the pages vpns of an image are loaded in mem
LoadContents(ph, mem, vpns) ==
    [f \in {mem.maps[v][1] : v \in vpns} |-> ImageContent]
        @@ WriteBytes(ph, UserFrames(mem))

\* process::init: spawn and load the init binary
Boot ==
    Bind(ProcessNew({}, [max |-> 0, free |-> << >>], 0), LAMBDA new :
    Bind(LoadFromElf(new.used, new.data, InitImagePages, InitEntry), LAMBDA elf :
         [table |-> (new.pid :> elf.data), used |-> elf.used, pids |-> new.pids,
          phys |-> LoadContents(<< >>, elf.data.memory, InitImagePages)]))

-----------------------------------------------------------------------------
(* The kernel on several harts, one lock operation at a time: the objects *)

Harts == 1..NumHarts

\* the hart that ran main with boot_core = TRUE; it alone ran timer::init
BootHart == 1

\* a kernel stack is named by its owner: a process's by the pid, the stack a
\* hart booted on (where its worker runs) by the negated hart id
IdleStack(h) == 0 - h

\* an activation on a kernel stack: the code position and two locals
Frame(pc, v, w) == [pc |-> pc, v |-> v, w |-> w]

\* a TaskContext: sp names the kernel stack, ra and the frames on that stack
\* are the code that goes on when the context is switched to
Context(on, stack) == [on |-> on, stack |-> stack]

\* TaskContext::new(): ra = 0, nothing to resume
ZeroContext == Context(0, << >>)

\* Process::new as the harts see it: Ready, and kernel_task_context.ra is
\* user_trap_returner on the process's empty kernel stack
TaskNew(pid) ==
    [status |-> "Ready",
     kernel_task_context |-> Context(pid, <<Frame("user_trap_returner", 0, 0)>>),
     children |-> << >>,
     waiting_list |-> << >>]

\* CPU::new, then main: every hart has run interrupt::init and calls worker
CpuNew(h) ==
    [proc |-> 0,
     trap_info |-> <<0, FALSE>>,
     sie |-> TRUE,
     timer |-> (h = BootHart),
     on |-> IdleStack(h),
     stack |-> <<Frame("worker", 0, 0)>>,
     cpu_context |-> ZeroContext]

LockIds ==
    {<<"manager", 0>>, <<"timer", 0>>}
        \cup {<<"data", p>> : p \in 1..(MaxHartProcs + 1)}
        \cup {<<"condvar", p>> : p \in 1..(MaxHartProcs + 1)}
        \cup {<<"cpu", h>> : h \in Harts}
        \cup {<<"pipe", 0>>, <<"pipe_condvar", 1>>, <<"pipe_condvar", 2>>}
        \cup {<<"intrlock", 0>>, <<"refcell", 0>>}
        \cup {<<"refcell", h>> : h \in Harts}

\* the state in which the harts enter worker: init is spawned and loaded
HartsInit ==
    /\ cpus = [h \in Harts |-> CpuNew(h)]
    /\ locks = [l \in LockIds |-> 0]
    /\ tasks = (1 :> TaskNew(1))
    /\ manager = [process_list |-> {1}, previous_scheduled_pid |-> 0]
    /\ interrupts = 0

InitKernel ==
    /\ HartsInit
    /\ process_list = Boot.table
    /\ PAGE_ALLOCATOR = Boot.used
    /\ PID_ALLOCATOR = Boot.pids
    /\ previous_scheduled_pid = 0
    /\ cpu_proc = None
    /\ nfiles = 0
    /\ panic = ""
    /\ timer = TimerInit
    /\ phys = Boot.phys
    /\ calls = 0
    /\ spawned = 1

NoPipe ==
    /\ pipe = PipeBufferNew
    /\ written = << >>
    /\ delivered = << >>

-----------------------------------------------------------------------------
(* Process life cycle on one hart: fork, exit, wait4, getppid, yield *)

\* the user state at every trap of this study
U0 == [pc |-> InitEntry, s1 |-> 0]

ExitCodes == {7}
WaitPids == {-1} \cup (1..MaxProcs)
WaitOptions == {0, WNOHANG}

Init ==
    /\ InitKernel
    /\ NoPipe
    /\ picks = << >>

Next ==
    \/ Worker(FALSE)
    \/ \E p \in DOMAIN process_list : SchedYield(p, U0)
    \/ \E p \in DOMAIN process_list : TimerYield(p)
    \/ \E p \in DOMAIN process_list : ReturnToUser(p)
    \/ \E p \in DOMAIN process_list : spawned < MaxProcs /\ Clone(p, U0, 0)
    \/ \E p \in DOMAIN process_list, code \in ExitCodes : Exit(p, U0, code)
    \/ \E p \in DOMAIN process_list, pid \in WaitPids, option \in WaitOptions :
          Wait4(p, U0, pid, option)
    \/ \E p \in DOMAIN process_list : WaitForRetry(p)
    \/ \E p \in DOMAIN process_list : GetPpid(p, U0)

Spec == Init /\ [][Next]_vars

-----------------------------------------------------------------------------
(* Properties of exit and wait4, checked under Spec *)

\* the children a Weak of d's list still upgrades to
LiveChildren(d) == SelectSeq(d.children, LAMBDA w : w # DeadWeak)

\* the argument a Zombie passed to exit: a0 of the context its ecall saved
ExitArgument(d) == d.trap_context.reg[TrapContext_a0]

\* C5: when the only child c of p is a Zombie, wait4(-1, &s, 0) by p returns
\* c, stores in s the code c passed to exit, removes c from the process table
\* and leaves p without a child; and wait4(-1, &s, 0) by a process without a
\* live child returns ECHILD.
C5_WaitReapsOnlyChild ==
    [][\A p \in DOMAIN process_list :
          Wait4(p, U0, -1, 0) =>
             /\ \A c \in DOMAIN process_list :
                   (LiveChildren(process_list[p]) = <<c>>
                        /\ process_list[c].status = "Zombie") =>
                      /\ process_list'[p].frame.ret = Ok(c)
                      /\ process_list'[p].wstatus = ExitArgument(process_list[c])
                      /\ c \notin DOMAIN process_list'
                      /\ LiveChildren(process_list'[p]) = << >>
                      /\ cpu_proc' = Some(p)
             /\ LiveChildren(process_list[p]) = << >> =>
                   /\ process_list'[p].frame.ret = Err("ECHILD")
                   /\ cpu_proc' = Some(p)]_vars

\* C5 witness: p, which created the only other process, reaped it with its
\* code, called wait4(-1, &s, 0) again and got ECHILD
C5_Witness ==
    \E p \in DOMAIN process_list :
        /\ spawned = 2
        /\ DOMAIN process_list = {p}
        /\ process_list[p].wstatus \in ExitCodes
        /\ process_list[p].trap_context.reg[TrapContext_a7] = Syscall_wait4
        /\ process_list[p].trap_context.reg[TrapContext_a0] = SyscallRet(Err("ECHILD"))
        /\ process_list[p].frame.ret = Err("ECHILD")

\* the child wait4(pid, ..) designates is a child of p and no Zombie; for -1
\* p has a child and none is a Zombie
DesignatedNotZombie(p, pid) ==
    IF pid = -1
    THEN /\ LiveChildren(process_list[p]) # << >>
         /\ \A c \in SeqRange(LiveChildren(process_list[p])) :
               process_list[c].status # "Zombie"
    ELSE /\ pid \in SeqRange(LiveChildren(process_list[p]))
         /\ process_list[pid].status # "Zombie"

\* C6: wait4(pid, _, WNOHANG) while the designated child (for -1: every
\* child) is not a Zombie returns 0 at once: the caller keeps the hart and is
\* Running, no condvar list changes and no process leaves the table.
C6_NoHangReturnsZero ==
    [][\A p \in DOMAIN process_list, pid \in WaitPids :
          (DesignatedNotZombie(p, pid) /\ Wait4(p, U0, pid, WNOHANG)) =>
             /\ process_list'[p].frame.ret = Ok(0)
             /\ process_list'[p].trap_context.reg[TrapContext_a0] = 0
             /\ process_list'[p].status = "Running"
             /\ cpu_proc' = Some(p)
             /\ DOMAIN process_list' = DOMAIN process_list
             /\ \A q \in DOMAIN process_list :
                   process_list'[q].condvar_waiting_for_exit
                       = process_list[q].condvar_waiting_for_exit]_vars

\* C6 witness: p has a Ready child and a Zombie child, named the Ready one in
\* wait4(pid, _, WNOHANG) and got 0
C6_Witness ==
    \E p \in DOMAIN process_list :
        /\ cpu_proc = Some(p)
        /\ process_list[p].trap_context.reg[TrapContext_a7] = Syscall_wait4
        /\ process_list[p].trap_context.reg[TrapContext_a2] = WNOHANG
        /\ process_list[p].frame.ret = Ok(0)
        /\ process_list[p].kernel_task_context.ra = "user_trap_returner"
        /\ \E c, z \in SeqRange(LiveChildren(process_list[p])) :
              /\ process_list[p].trap_context.reg[TrapContext_a1] = StatusBuf
              /\ process_list[c].status = "Ready"
              /\ process_list[z].status = "Zombie"

\* C7: wait4(pid > 0, _, 0) by a caller that has a child, where pid is not
\* the pid of one of its children, returns ECHILD and does not suspend the
\* caller.
C7_NotMyChildIsECHILD ==
    [][\A p \in DOMAIN process_list, pid \in WaitPids :
          (/\ pid > 0
           /\ LiveChildren(process_list[p]) # << >>
           /\ pid \notin SeqRange(LiveChildren(process_list[p]))
           /\ Wait4(p, U0, pid, 0)) =>
             /\ process_list'[p].frame.ret = Err("ECHILD")
             /\ process_list'[p].status # "Suspend"]_vars

\* C8: exit(code) by a process other than init leaves it in the table as a
\* Zombie with exit_code = code, with no mapping and with every user frame it
\* owned free in the allocator; a Zombie stays the same table entry until the
\* step in which a wait4 returns its pid; and the pid clone returns is never
\* the pid of a process in the table, nor is such a pid in the free list.
C8_ZombieStaysUntilReaped ==
    [][/\ \A p \in DOMAIN process_list \ {1}, code \in ExitCodes :
             Exit(p, U0, code) =>
                /\ p \in DOMAIN process_list'
                /\ process_list'[p].status = "Zombie"
                /\ process_list'[p].exit_code = code
                /\ DOMAIN process_list'[p].memory.maps = {}
                /\ process_list'[p].memory.page_table.ptes = EmptyMap
                /\ \A f \in UserFrames(process_list[p].memory) :
                      FrameIsFree(PAGE_ALLOCATOR', f)
       /\ \A z \in DOMAIN process_list :
             process_list[z].status = "Zombie" =>
                IF z \in DOMAIN process_list'
                THEN /\ process_list'[z].status = "Zombie"
                     /\ process_list'[z].exit_code = process_list[z].exit_code
                     /\ process_list'[z].kernel_stack = process_list[z].kernel_stack
                ELSE \E q \in DOMAIN process_list' :
                        /\ z \in SeqRange(process_list[q].children)
                        /\ cpu_proc = Some(q)
                        /\ process_list'[q].trap_context.reg[TrapContext_a7] = Syscall_wait4
                        /\ process_list'[q].frame.ret = Ok(z)
       /\ \A p \in DOMAIN process_list :
             (spawned < MaxProcs /\ Clone(p, U0, 0)) =>
                \E c \in DOMAIN process_list' \ DOMAIN process_list :
                   /\ process_list'[p].frame.ret = Ok(c)
                   /\ Cardinality(DOMAIN process_list') = Cardinality(DOMAIN process_list) + 1
       /\ \A q \in DOMAIN process_list : q \notin SeqRange(PID_ALLOCATOR.free)]_vars

\* C8 witness: a pid was issued a second time after its first holder was
\* reaped, and its second holder has called exit and is a Zombie in the table
C8_Witness ==
    \E z \in DOMAIN process_list \ {1} :
        /\ spawned = MaxProcs
        /\ PID_ALLOCATOR.max < MaxProcs
        /\ PID_ALLOCATOR.free = << >>
        /\ process_list[z].status = "Zombie"
        /\ process_list[z].exit_code \in ExitCodes
        /\ process_list[z].trap_context.reg[TrapContext_a7] = Syscall_exit
        /\ DOMAIN process_list[z].memory.maps = {}

\* C9: exit of p empties p's children list, puts every child of p in the
\* children list of init, and makes the parent reference of every child of p
\* (what getppid returns) designate pid 1.
C9_ChildrenReparented ==
    [][\A p \in DOMAIN process_list \ {1}, code \in ExitCodes :
          Exit(p, U0, code) =>
             /\ process_list'[p].children = << >>
             /\ \A c \in SeqRange(LiveChildren(process_list[p])) :
                   /\ c \in SeqRange(process_list'[1].children)
                   /\ ParentPid(process_list'[c]) = 1]_vars

-----------------------------------------------------------------------------
(* fork of a process that has opened files and changed its directory *)

\* what user code leaves in pc and s1 before an ecall
UserStates == [pc : {InitEntry, InitEntry + 8}, s1 : 0..MaxRegVal]

\* what an earlier owner left in the frames alloc_many hands out
StaleWords == {0, 3}

Directories == {"/mnt"}
FileNames == {"/mnt/f"}

NextFork ==
    \/ Worker(FALSE)
    \/ \E p \in DOMAIN process_list : ReturnToUser(p)
    \/ \E p \in DOMAIN process_list, u \in UserStates, stale \in StaleWords :
          spawned < MaxProcs /\ Clone(p, u, stale)
    \/ \E p \in DOMAIN process_list, filename \in FileNames :
          nfiles < MaxOpens /\ OpenAt(p, U0, filename)
    \/ \E p \in DOMAIN process_list, path \in Directories : Chdir(p, U0, path)
    \/ \E p \in DOMAIN process_list : TimerYield(p)

SpecFork == Init /\ [][NextFork]_vars

\* the process a step adds to the table
Created == DOMAIN process_list' \ DOMAIN process_list

\* C3: in the step of a fork, the child's cwd is the parent's cwd and, at
\* every index open in the parent's fd table, the child's fd table holds the
\* same file object.
C3_ChildInheritsCwdAndFiles ==
    [][spawned' = spawned + 1 =>
          \E p \in DOMAIN process_list, c \in Created :
             /\ cpu_proc = Some(p)
             /\ process_list'[c].cwd = process_list[p].cwd
             /\ \A i \in 1..Len(process_list[p].files) :
                   IsSome(process_list[p].files[i]) =>
                      /\ i <= Len(process_list'[c].files)
                      /\ process_list'[c].files[i] = process_list[p].files[i]]_vars

\* C4: in the step of a fork by p the table gains one entry c and no entry is
\* replaced; c is Ready; c's TrapContext has the sepc of p's ecall, advanced,
\* and p's 32 registers except a0 = 0; c's kernel_sp and satp are those of its
\* own kernel stack and page table and differ from p's; clone's result is c,
\* and it is in a0 when p returns to user mode.
C4_ForkChildContext ==
    [][/\ spawned' = spawned + 1 =>
             \E p \in DOMAIN process_list, c \in Created :
                /\ cpu_proc = Some(p)
                /\ DOMAIN process_list' = DOMAIN process_list \cup {c}
                /\ \A q \in DOMAIN process_list \ {p} : process_list'[q] = process_list[q]
                /\ process_list'[c].status = "Ready"
                /\ \E u \in UserStates :
                      /\ process_list'[p].trap_context.reg
                             = UserRegs(Syscall_clone, SIGCHLD, 0, 0, u.s1)
                      /\ process_list'[p].trap_context.sepc = u.pc + 4
                      /\ process_list'[c].trap_context.sepc = u.pc + 4
                /\ \A r \in Regs \ {TrapContext_a0} :
                      process_list'[c].trap_context.reg[r]
                          = process_list'[p].trap_context.reg[r]
                /\ process_list'[c].trap_context.reg[TrapContext_a0] = 0
                /\ process_list'[c].trap_context.kernel_sp
                       = KernelSp(process_list'[c].kernel_stack)
                /\ process_list'[c].trap_context.kernel_sp
                       = process_list'[c].kernel_task_context.sp
                /\ process_list'[c].trap_context.kernel_sp
                       # process_list'[p].trap_context.kernel_sp
                /\ process_list'[c].trap_context.satp
                       = ToSatp(process_list'[c].memory.page_table)
                /\ process_list'[c].trap_context.satp
                       # process_list'[p].trap_context.satp
                /\ process_list'[c].kernel_stack # process_list'[p].kernel_stack
                /\ process_list'[p].frame.ret = Ok(c)
       /\ \A p \in DOMAIN process_list :
             (/\ cpu_proc = Some(p)
              /\ process_list[p].kernel_task_context.ra = "syscall_ret"
              /\ process_list[p].trap_context.reg[TrapContext_a7] = Syscall_clone
              /\ process_list'[p].kernel_task_context.ra = "user_trap_returner") =>
                /\ process_list[p].frame.ret.ok
                /\ process_list'[p].trap_context.reg[TrapContext_a0]
                       = process_list[p].frame.ret.v
                /\ process_list[p].frame.ret.v \in DOMAIN process_list \ {p}]_vars

\* C4 witness: three processes; c was forked over stale frames by a parent
\* whose ecall was at InitEntry + 8 with s1 = MaxRegVal, and the parent is back
\* in user mode with c in a0
C4_Witness ==
    \E p, c \in DOMAIN process_list :
        /\ Cardinality(DOMAIN process_list) = MaxProcs
        /\ process_list[c].parent = Some(p)
        /\ process_list[c].status = "Ready"
        /\ process_list[c].trap_context.sstatus = 3
        /\ process_list[c].trap_context.sepc = InitEntry + 12
        /\ process_list[c].trap_context.reg[TrapContext_s1] = MaxRegVal
        /\ process_list[c].trap_context.reg[TrapContext_a7] = Syscall_clone
        /\ process_list[c].trap_context.reg[TrapContext_a0] = 0
        /\ cpu_proc = Some(p)
        /\ process_list[p].kernel_task_context.ra = "user_trap_returner"
        /\ process_list[p].trap_context.reg[TrapContext_a7] = Syscall_clone
        /\ process_list[p].trap_context.reg[TrapContext_a0] = c

-----------------------------------------------------------------------------
(* A pipe used by the processes of the table *)

\* the k-th byte user code writes to the pipe
Byte(k) == k % 251

RECURSIVE Flatten(_)
Flatten(ss) == IF ss = << >> THEN << >> ELSE Head(ss) \o Flatten(Tail(ss))

WriteLens == {1, PIPE_SIZE + 1}
ReadLens == {0, 1, PIPE_SIZE + 2}

\* the buffer of the next write of len bytes
NextBuf(len) == [i \in 1..len |-> Byte(Len(Flatten(written)) + i)]

InitPipe ==
    /\ InitKernel
    /\ pipe = PipeFileCreate
    /\ written = << >>
    /\ delivered = << >>
    /\ picks = << >>

NextPipe ==
    \/ Worker(FALSE)
    \/ \E p \in DOMAIN process_list : ReturnToUser(p)
    \/ \E p \in DOMAIN process_list : spawned < MaxPipeProcs /\ Clone(p, U0, 0)
    \/ \E p \in DOMAIN process_list, len \in WriteLens :
          Len(written) < MaxPipeCalls /\ PipeFileWrite(p, NextBuf(len))
    \/ \E p \in DOMAIN process_list, len \in ReadLens :
          Len(delivered) < MaxPipeCalls /\ PipeFileRead(p, len)
    \/ \E p \in DOMAIN process_list : PipeFileResume(p)
    \/ \E p \in DOMAIN process_list, type_ \in {"Reader", "Writer"} :
          PipeFileClose(p, type_)

SpecPipe == InitPipe /\ [][NextPipe]_vars

\* the bytes the reads returned so far, and the bytes the writes took
Delivered == Flatten(delivered)
Written == Flatten(written)

\* C1: the bytes returned by the reads of a pipe are, in order, the bytes that
\* were written to it: at every moment the concatenation of the read results
\* is the beginning of the concatenation of the written buffers, and it is all
\* of it once the reads have emptied the buffer. A write longer than PIPE_SIZE
\* with no read in between is among the cases.
C1_ReadsDeliverWrittenBytes ==
    /\ Len(Delivered) <= Len(Written)
    /\ Delivered = SubSeq(Written, 1, Len(Delivered))
    /\ pipe.n_read = pipe.n_write => Delivered = Written

\* C2: a PipeFile::read called on the read end after the write end was closed
\* returns to its caller without suspending it: the caller keeps the hart, is
\* not made Suspend and is on neither wait list of the pipe; the call gives
\* Ok(min(len, unread)) while unread bytes exist and an error once the buffer
\* is empty.
C2_ReadAfterWriterClosedReturns ==
    [][\A p \in DOMAIN process_list, len \in ReadLens :
          (~pipe.write_open /\ PipeFileRead(p, len)) =>
             /\ cpu_proc' = Some(p)
             /\ process_list'[p].status = process_list[p].status
             /\ process_list'[p].status # "Suspend"
             /\ process_list'[p].kernel_task_context.ra = "user_trap_returner"
             /\ p \notin SeqRange(pipe'.wait_write) \cup SeqRange(pipe'.wait_read)
             /\ process_list'[p].frame.ret =
                   IF pipe.n_read = pipe.n_write
                   THEN Err("Read from a pipe no one could write.")
                   ELSE Ok(MinOf({len, pipe.n_write - pipe.n_read}))
             /\ pipe'.n_read = pipe.n_read + MinOf({len, pipe.n_write - pipe.n_read})]_vars

\* the write end is closed, the reads have taken every written byte, and a
\* read that asked for more than was ever written got the
\* error
C2_Witness ==
    /\ ~pipe.write_open
    /\ pipe.n_read = pipe.n_write
    /\ Written # << >>
    /\ Delivered = Written
    /\ \E p \in DOMAIN process_list :
          /\ process_list[p].frame.len > Len(Written)
          /\ process_list[p].frame.ret = Err("Read from a pipe no one could write.")

-----------------------------------------------------------------------------
(* Processes that loop on sched_yield *)

NextSched ==
    \/ Len(picks) < MaxPicks /\ Worker(TRUE)
    \/ \E p \in DOMAIN process_list : ReturnToUser(p)
    \/ \E p \in DOMAIN process_list, u \in UserStates : SchedYield(p, u)
    \/ \E p \in DOMAIN process_list : TimerYield(p)
    \/ \E p \in DOMAIN process_list, u \in UserStates :
          spawned < MaxProcs /\ Clone(p, u, 0)

SpecSched == Init /\ [][NextSched]_vars

\* the number of times pid q was picked among the picks i..j
Visits(q, i, j) == Cardinality({k \in i..j : picks[k].pid = q})

\* C10: among any K consecutive scheduler picks made while the table holds
\* the same N processes, which yield and never block or exit, every process is
\* picked at least K \div N times; and the pick after pid q is the next pid
\* above q, or the lowest pid when q is the highest.
C10_RoundRobinFair ==
    /\ \A i \in 1..Len(picks) : \A j \in i..Len(picks) :
          (\A k \in i..j : picks[k].n = picks[i].n) =>
             \A q \in 1..picks[i].n :
                Visits(q, i, j) >= (j - i + 1) \div picks[i].n
    /\ \A k \in 1..(Len(picks) - 1) :
          picks[k + 1].pid = IF picks[k].pid < picks[k + 1].n
                             THEN picks[k].pid + 1 ELSE 1

\* MaxPicks picks were made, the last two rounds of them among MaxProcs
\* processes
C10_Witness ==
    /\ Len(picks) = MaxPicks
    /\ \A k \in (MaxPicks - 2 * MaxProcs + 1)..MaxPicks : picks[k].n = MaxProcs

-----------------------------------------------------------------------------
(* ark_sleep_ticks *)

\* the clock advances by one tick
Tick ==
    /\ timer.time < MaxTime
    /\ timer' = [timer EXCEPT !.time = @ + 1]
    /\ UNCHANGED <<hartvars, phys, calls, process_list, previous_scheduled_pid, cpu_proc, PID_ALLOCATOR,
                   PAGE_ALLOCATOR, nfiles, panic, pipe, written, delivered, picks,
                   spawned>>

\* the timer interrupt is pending: the clock has reached the trigger (past
\* MaxTime the clock is not followed and the trigger counts as reached)
TimerDue == timer.time >= timer.cmp \/ timer.time = MaxTime

\* a sleeper that is content after the first tick
SleepWaitsOneTick(t, frame) == frame.ticks > 0 /\ t.time = frame.current_ticks

\* the condition of the while loop of sleep_ticks
SleepMustWait(t, frame) == t.time - frame.current_ticks < frame.ticks

\* sleep_on_timer for the process record d of p: TIMER_CONDVAR.wait(), do_yield
SleepOnTimer(d) == DoYield([d EXCEPT !.status = "Suspend"], "sleep_on_timer")

\* One evaluation of the loop of sleep_ticks by p, whose record is d: it
\* returns Ok(now), or it reaches the do_yield of sleep_on_timer
SleepPass(p, d) ==
    IF SleepMustWait(timer, d.frame)
    THEN /\ process_list' = [process_list EXCEPT ![p] = SleepOnTimer(d)]
         /\ timer' = [timer EXCEPT !.waiting_list = CondvarWait(@, p)]
         /\ cpu_proc' = None
    ELSE /\ process_list' = [process_list EXCEPT
               ![p] = [d EXCEPT !.frame.ret = Ok(timer.time),
                                !.trap_context.reg[TrapContext_a0] = timer.time,
                                !.kernel_task_context.ra = "user_trap_returner"]]
         /\ UNCHANGED <<timer, cpu_proc>>

\* the locals of p's sleep: one of the kernel_task_context.ra of a process
\* inside sleep_ticks
SleepLabels == {"sleep_on_timer", "sleep_before_wait", "sleep_before_yield"}

\* ark_sleep_ticks(ticks) called by the running process p
SleepTicks(p, u, ticks) ==
    /\ InUser(p)
    /\ SleepPass(p, [process_list[p] EXCEPT
           !.trap_context = EnvCall(@, u, Syscall_ark_sleep_ticks, ticks, 0, 0),
           !.frame = [NoFrame EXCEPT !.current_ticks = timer.time, !.ticks = ticks]])
    /\ UNCHANGED <<hartvars, phys, calls, previous_scheduled_pid, PID_ALLOCATOR, PAGE_ALLOCATOR, nfiles, panic,
                   pipe, written, delivered, picks, spawned>>

\* p is switched to again after the do_yield of sleep_on_timer and evaluates
\* the loop condition
SleepResume(p) ==
    /\ InKernel(p, "sleep_on_timer")
    /\ SleepPass(p, process_list[p])
    /\ UNCHANGED <<hartvars, phys, calls, previous_scheduled_pid, PID_ALLOCATOR, PAGE_ALLOCATOR, nfiles, panic,
                   pipe, written, delivered, picks, spawned>>

\* A process resumed by worker runs with interrupts enabled (enable_trap in
\* the loop of worker). The timer interrupt taken in the loop of sleep_ticks
\* after the condition held and before TIMER_CONDVAR.wait(): timer::handler,
\* whose do_yield saves the interrupted position
SleepPreemptBeforeWait(p) ==
    /\ InKernel(p, "sleep_on_timer")
    /\ SleepMustWait(timer, process_list[p].frame)
    /\ timer' = TimerHandler(timer)
    /\ process_list' = [CondvarWakeup(timer.waiting_list, process_list) EXCEPT
                           ![p] = DoYield(@, "sleep_before_wait")]
    /\ cpu_proc' = None
    /\ UNCHANGED <<hartvars, phys, calls, previous_scheduled_pid, PID_ALLOCATOR, PAGE_ALLOCATOR, nfiles, panic,
                   pipe, written, delivered, picks, spawned>>

\* p returns from that interrupt: TIMER_CONDVAR.wait(), do_yield
SleepResumeBeforeWait(p) ==
    /\ InKernel(p, "sleep_before_wait")
    /\ process_list' = [process_list EXCEPT ![p] = SleepOnTimer(@)]
    /\ timer' = [timer EXCEPT !.waiting_list = CondvarWait(@, p)]
    /\ cpu_proc' = None
    /\ UNCHANGED <<hartvars, phys, calls, previous_scheduled_pid, PID_ALLOCATOR, PAGE_ALLOCATOR, nfiles, panic,
                   pipe, written, delivered, picks, spawned>>

\* The timer interrupt taken in sleep_on_timer between TIMER_CONDVAR.wait()
\* and do_yield: the handler's wakeup finds p on the list and makes it Ready,
\* and the handler's do_yield saves the interrupted position
SleepPreemptBeforeYield(p) ==
    /\ \/ InKernel(p, "sleep_on_timer") /\ SleepMustWait(timer, process_list[p].frame)
       \/ InKernel(p, "sleep_before_wait")
    /\ timer' = TimerHandler(timer)
    /\ process_list' =
          [CondvarWakeup(CondvarWait(timer.waiting_list, p),
                         [process_list EXCEPT ![p].status = "Suspend"]) EXCEPT
              ![p] = DoYield(@, "sleep_before_yield")]
    /\ cpu_proc' = None
    /\ UNCHANGED <<hartvars, phys, calls, previous_scheduled_pid, PID_ALLOCATOR, PAGE_ALLOCATOR, nfiles, panic,
                   pipe, written, delivered, picks, spawned>>

\* p returns from that interrupt: the do_yield of sleep_on_timer
SleepResumeBeforeYield(p) ==
    /\ InKernel(p, "sleep_before_yield")
    /\ process_list' = [process_list EXCEPT ![p] = DoYield(@, "sleep_on_timer")]
    /\ cpu_proc' = None
    /\ UNCHANGED <<hartvars, phys, calls, previous_scheduled_pid, PID_ALLOCATOR, PAGE_ALLOCATOR, nfiles, panic,
                   pipe, written, delivered, picks, spawned, timer>>

SleepArgs == {0, 1, 2}

NextSleep ==
    \/ Worker(FALSE)
    \/ Tick
    \/ TimerDue /\ TimerIdle
    \/ \E p \in DOMAIN process_list : TimerDue /\ TimerYield(p)
    \/ \E p \in DOMAIN process_list : ReturnToUser(p)
    \/ \E p \in DOMAIN process_list : spawned < MaxSleepProcs /\ Clone(p, U0, 0)
    \/ \E p \in DOMAIN process_list, ticks \in SleepArgs :
          timer.time + ticks <= MaxTime /\ SleepTicks(p, U0, ticks)
    \/ \E p \in DOMAIN process_list : SleepResume(p)
    \/ \E p \in DOMAIN process_list : TimerDue /\ SleepPreemptBeforeWait(p)
    \/ \E p \in DOMAIN process_list : SleepResumeBeforeWait(p)
    \/ \E p \in DOMAIN process_list : TimerDue /\ SleepPreemptBeforeYield(p)
    \/ \E p \in DOMAIN process_list : SleepResumeBeforeYield(p)

\* the clock runs, pending timer interrupts are taken, the loop of worker and
\* the kernel code of a process that holds the hart go on
FairSleep ==
    /\ WF_vars(Worker(FALSE))
    /\ WF_vars(Tick)
    /\ WF_vars(TimerDue /\ TimerIdle)
    /\ \A p \in 1..MaxSleepProcs :
          /\ WF_vars(p \in DOMAIN process_list /\ TimerDue /\ TimerYield(p))
          /\ WF_vars(p \in DOMAIN process_list /\ ReturnToUser(p))
          /\ WF_vars(p \in DOMAIN process_list
                        /\ (SleepResume(p) \/ (TimerDue /\ SleepPreemptBeforeWait(p))
                                           \/ (TimerDue /\ SleepPreemptBeforeYield(p))))
          /\ WF_vars(p \in DOMAIN process_list
                        /\ (SleepResumeBeforeWait(p)
                               \/ (TimerDue /\ SleepPreemptBeforeYield(p))))
          /\ WF_vars(p \in DOMAIN process_list /\ SleepResumeBeforeYield(p))

SpecSleep == Init /\ [][NextSleep]_vars /\ FairSleep

\* p is inside ark_sleep_ticks, off the hart or resumed
Sleeping(p) ==
    /\ p \in DOMAIN process_list
    /\ process_list[p].kernel_task_context.ra \in SleepLabels

-----------------------------------------------------------------------------
(* brk, mmap, munmap, the user stack *)

\* Addr::round_up and Addr::to_offset
RoundUp(addr) == ((addr + (PAGE_SIZE - 1)) \div PAGE_SIZE) * PAGE_SIZE

ToOffset(addr, offset) ==
    IF offset < 0
    THEN IF addr < 0 - offset THEN 0 ELSE addr + offset
    ELSE addr + offset

\* VirtPageId::from(VirtAddr)
VirtPageIdFrom(addr) == addr \div PAGE_SIZE

\* the result of an operation of ProcessMemory: the allocator, the memory, the
\* frames PhyPage::alloc cleared, the message of a panic, the value returned
MemResult(used, mem, cleared, msg, ret) ==
    [used |-> used, mem |-> mem, cleared |-> cleared, panic |-> msg, ret |-> ret]

\* the assertion of PageTable::set_pte fails for vpn: its entry is valid
SetPteAsserts(mem, vpn) == vpn \in DOMAIN mem.page_table.ptes

\* PhyPage::alloc and ProcessMemory::map of page vpn, as one step of s
AllocAndMap(s, vpn, flags) ==
    Bind(PhyPageAlloc(s.used), LAMBDA page :
         IF SetPteAsserts(s.mem, vpn)
         THEN MemResult(page.used, s.mem, s.cleared \cup {page.page},
                        "is already mapped", s.ret)
         ELSE Bind(MemoryMap(page.used, s.mem, vpn, page.page, flags), LAMBDA m :
                   MemResult(m.used, m.mem, s.cleared \cup {page.page}, "", s.ret)))

\* the while loop of ProcessMemory::set_brk
RECURSIVE SetBrkLoop(_, _, _)
SetBrkLoop(s, new_brk, real_brk) ==
    IF s.panic # "" \/ ~(new_brk > real_brk) THEN s
    ELSE SetBrkLoop(AllocAndMap(s, VirtPageIdFrom(ToOffset(real_brk, 1)),
                                {"U", "W", "R"}),
                    new_brk, ToOffset(real_brk, PAGE_SIZE))

\* ProcessMemory::set_brk
SetBrk(used, mem, new_brk) ==
    IF new_brk < mem.min_brk THEN MemResult(used, mem, {}, "", mem.brk)
    ELSE IF new_brk = mem.brk THEN MemResult(used, mem, {}, "", mem.brk)
    ELSE IF new_brk > mem.brk
    THEN Bind(SetBrkLoop(MemResult(used, mem, {}, "", 0), new_brk,
                         RoundUp(ToOffset(mem.brk, -1))), LAMBDA s :
              IF s.panic # "" THEN s
              ELSE MemResult(s.used, [s.mem EXCEPT !.brk = new_brk], s.cleared, "",
                             new_brk))
    ELSE MemResult(used, mem, {}, "not yet implemented", mem.brk)

\* an unmap that takes the page out of the maps and leaves its PTE
MemoryUnmapKeepsPte(used, mem, vpn) ==
    [used |-> PhyPageDrop(used, {mem.maps[vpn][1]}),
     mem |-> [mem EXCEPT
                 !.maps = [v \in DOMAIN mem.maps \ {vpn} |-> mem.maps[v]]]]

\* PageTable::unmap and ProcessMemory::unmap of a mapped page: the PhyPage
\* taken out of the maps is dropped
MemoryUnmap(used, mem, vpn) ==
    [used |-> PhyPageDrop(used, {mem.maps[vpn][1]}),
     mem |-> [mem EXCEPT
                 !.maps = [v \in DOMAIN mem.maps \ {vpn} |-> mem.maps[v]],
                 !.page_table.ptes = [v \in DOMAIN mem.page_table.ptes \ {vpn} |->
                                         mem.page_table.ptes[v]]]]

\* ProcessMemory::check_collapse with is_increasing false
CheckCollapse(mem, start_vpn, pages) ==
    \E vpn \in (start_vpn - pages + 1)..start_vpn : IsMapped(mem, vpn)

\* ProcessMemory::mmap with an address: a mapped page of the range is unmapped,
\* then every page is mapped to a new frame
RECURSIVE MmapFixedLoop(_, _, _)
MmapFixedLoop(s, vpns, flags) ==
    IF s.panic # "" \/ vpns = << >> THEN s
    ELSE Bind(IF IsMapped(s.mem, Head(vpns))
              THEN Bind(MemoryUnmap(s.used, s.mem, Head(vpns)), LAMBDA u :
                        MemResult(u.used, u.mem, s.cleared, "", s.ret))
              ELSE s, LAMBDA dropped :
              MmapFixedLoop(AllocAndMap(dropped, Head(vpns), flags), Tail(vpns), flags))

\* the loop of ProcessMemory::mmap over the run it found
RECURSIVE MmapLoop(_, _, _)
MmapLoop(s, vpns, flags) ==
    IF s.panic # "" \/ vpns = << >> THEN s
    ELSE MmapLoop(AllocAndMap(s, Head(vpns), flags), Tail(vpns), flags)

\* the pages below a mapped page that ProcessMemory::mmap tries in turn, in
\* the order of the keys of the maps
MmapCandidates(mem) ==
    Bind(VirtPageIdFrom(RoundUp(ToOffset(mem.brk, -1))), LAMBDA brk_page :
         SortedSeq({v - 1 : v \in {m \in DOMAIN mem.maps :
                                      /\ ~(m >= mem.mmap_base \/ m <= brk_page)
                                      /\ ~IsMapped(mem, m - 1)}}))

RECURSIVE FindMap(_, _, _)
FindMap(mem, candidates, pages) ==
    IF candidates = << >> THEN None
    ELSE IF ~CheckCollapse(mem, Head(candidates), pages)
    THEN Some(Head(candidates) - pages + 1)
    ELSE FindMap(mem, Tail(candidates), pages)

\* first_page of ProcessMemory::mmap without an address
MmapFirstPage(mem, pages) ==
    IF ~IsMapped(mem, mem.mmap_base - 1) /\ ~CheckCollapse(mem, mem.mmap_base - 1, pages)
    THEN Some(mem.mmap_base - 1 - pages + 1)
    ELSE FindMap(mem, MmapCandidates(mem), pages)

\* ProcessMemory::mmap: addr is None or Some(first_vpn); ret is the first page
MemoryMmap(used, mem, addr, pages, flags) ==
    IF IsSome(addr)
    THEN MmapFixedLoop(MemResult(used, mem, {}, "", Ok(Unwrap(addr))),
                       [i \in 1..pages |-> Unwrap(addr) + i - 1], flags)
    ELSE Bind(MmapFirstPage(mem, pages), LAMBDA first_page :
              IF IsSome(first_page)
              THEN MmapLoop(MemResult(used, mem, {}, "", Ok(Unwrap(first_page))),
                            [i \in 1..pages |-> Unwrap(first_page) + i - 1], flags)
              ELSE MemResult(used, mem, {}, "", Err("no enough memory for mmap")))

\* the loop of munmap: a page that is not mapped fails the expect
RECURSIVE MunmapLoop(_, _)
MunmapLoop(s, vpns) ==
    IF s.panic # "" \/ vpns = << >> THEN s
    ELSE IF ~IsMapped(s.mem, Head(vpns))
    THEN [s EXCEPT !.panic = "Failed to unmap pages in munmap."]
    ELSE Bind(MemoryUnmap(s.used, s.mem, Head(vpns)), LAMBDA u :
              MunmapLoop(MemResult(u.used, u.mem, s.cleared, "", s.ret), Tail(vpns)))

\* user_trap_handler for a system call that returns without do_yield: the
\* result goes to a0 and the process goes back to user mode
SyscallReturn(d, u, id, x0, x1, x2, ret) ==
    [d EXCEPT !.trap_context =
                  [EnvCall(@, u, id, x0, x1, x2) EXCEPT
                      !.reg[TrapContext_a0] = SyscallRet(ret)],
              !.frame.ret = ret]

\* the state after a memory system call of p with the result r and the value
\* ret: a panic stops the kernel inside the call
MemoryCallDone(p, u, id, x0, x1, r, ret) ==
    /\ PAGE_ALLOCATOR' = r.used
    /\ phys' = WriteBytes(phys, r.cleared \cup (TableFrames(r.mem)
                                                  \ TableFrames(process_list[p].memory)))
    /\ panic' = r.panic
    /\ calls' = calls + 1 /\ UNCHANGED hartvars
    /\ process_list' = [process_list EXCEPT
          ![p] = IF r.panic # ""
                 THEN [@ EXCEPT !.trap_context = EnvCall(@, u, id, x0, x1, 0),
                                !.memory = r.mem]
                 ELSE [SyscallReturn(@, u, id, x0, x1, 0, ret) EXCEPT !.memory = r.mem]]
    /\ UNCHANGED <<previous_scheduled_pid, cpu_proc, PID_ALLOCATOR, nfiles, pipe,
                   written, delivered, picks, timer, spawned>>

\* brk
Brk(p, u, addr) ==
    /\ InUser(p)
    /\ calls < MaxMemCalls
    /\ addr <= MaxBrkPage * PAGE_SIZE
    /\ \E r \in {SetBrk(PAGE_ALLOCATOR, process_list[p].memory, addr)} :
          MemoryCallDone(p, u, Syscall_brk, addr, 0, r, Ok(r.ret))

\* mmap of an anonymous mapping at a page aligned address with offset 0; prot
\* holds R for PROT_READ and W for PROT_WRITE, fixed says MAP_FIXED
Mmap(p, u, vpn, pages, prot, fixed) ==
    /\ InUser(p)
    /\ calls < MaxMemCalls
    /\ IF pages = 0
       THEN MemoryCallDone(p, u, Syscall_mmap, vpn * PAGE_SIZE, 0,
                           MemResult(PAGE_ALLOCATOR, process_list[p].memory, {}, "", 0),
                           Ok(-1))
       ELSE \E r \in {MemoryMmap(PAGE_ALLOCATOR, process_list[p].memory,
                                 IF fixed THEN Some(vpn) ELSE None, pages,
                                 {"U"} \cup prot)} :
               MemoryCallDone(p, u, Syscall_mmap, vpn * PAGE_SIZE, pages * PAGE_SIZE, r,
                              IF r.ret.ok THEN Ok(r.ret.v * PAGE_SIZE)
                              ELSE Err("ENOMEM"))

\* munmap
Munmap(p, u, vpn, pages) ==
    /\ InUser(p)
    /\ calls < MaxMemCalls
    /\ \E r \in {MunmapLoop(MemResult(PAGE_ALLOCATOR, process_list[p].memory, {}, "", 0),
                            [i \in 1..pages |-> vpn + i - 1])} :
          MemoryCallDone(p, u, Syscall_munmap, vpn * PAGE_SIZE, pages * PAGE_SIZE, r,
                         Ok(0))

\* a store page fault of the running process at an address of page vpn, which
\* is not mapped or not writable: exception_handler tries alloc_stack_if_possible and skips 0 bytes, or
\* shuts the machine down
PageFaultTrap(p, u, vpn) ==
    /\ InUser(p)
    /\ calls < MaxMemCalls
    /\ IF IsMapped(process_list[p].memory, vpn)
       THEN "W" \notin process_list[p].memory.maps[vpn][2]
       ELSE TRUE
    /\ \E r \in {AllocStackIfPossible(PAGE_ALLOCATOR, process_list[p].memory, vpn)} :
          /\ PAGE_ALLOCATOR' = r.used
          /\ phys' = WriteBytes(phys, (UserFrames(r.mem) \cup TableFrames(r.mem))
                                          \ (UserFrames(process_list[p].memory)
                                                \cup TableFrames(process_list[p].memory)))
          /\ panic' = IF r.ok THEN "" ELSE "Unhandled Page-Fault"
          /\ process_list' = [process_list EXCEPT
                ![p].memory = r.mem,
                ![p].trap_context.sepc = u.pc,
                ![p].trap_context.reg[TrapContext_s1] = u.s1]
    /\ calls' = calls + 1 /\ UNCHANGED hartvars
    /\ UNCHANGED <<previous_scheduled_pid, cpu_proc, PID_ALLOCATOR, nfiles, pipe,
                   written, delivered, picks, timer, spawned>>

\* the page faults of a process whose stack has fewer than MaxStackPages pages
PageFault(p, u, vpn) ==
    /\ process_list[p].memory.stack_base - process_list[p].memory.stack_top
          < MaxStackPages
    /\ PageFaultTrap(p, u, vpn)

\* a store of the running process to a page it may write
UserStore(p, vpn, c) ==
    /\ InUser(p)
    /\ calls < MaxMemCalls
    /\ IsMapped(process_list[p].memory, vpn)
    /\ {"U", "W"} \subseteq process_list[p].memory.maps[vpn][2]
    /\ phys' = CopyU8(phys, process_list[p].memory.maps[vpn][1], c)
    /\ calls' = calls + 1 /\ UNCHANGED hartvars
    /\ UNCHANGED <<process_list, previous_scheduled_pid, cpu_proc, PID_ALLOCATOR,
                   PAGE_ALLOCATOR, nfiles, panic, pipe, written, delivered, picks,
                   timer, spawned>>

\* the pages and the entry point of the program execve loads, and the content
\* execve leaves in the first stack page (argc, the tables, the strings)
ExecImagePages == {16, 17}
ExecEntry == 65536
ArgsContent == 3

\* round_down_to(align) of an address that is len below a page boundary: the
\* distance below the boundary grows to the next multiple of align
RoundDownTo(len, align) == ((len + align - 1) \div align) * align

\* pusher, for each string of a table: sp moves down by the string and its
\* NUL, to a multiple of 16.  lens holds the lengths of the strings and len
\* is the distance of sp below stack_bottom.
RECURSIVE PushStrings(_, _)
PushStrings(lens, len) ==
    IF lens = << >> THEN len
    ELSE PushStrings(Tail(lens), RoundDownTo(len + Head(lens) + 1, 16))

\* the entries load_elf puts in the aux table, and the size of an Aux
AuxEntries == 14
SizeOfAux == 16

\* only the tables and argc, as if the strings took no room
ExecveTablesOnly(argv, env) ==
    Bind(SizeOfAux * (AuxEntries + 2) + 8 * (Len(env) + 1), LAMBDA envp :
         [envp |-> envp,
          argv |-> envp + 8 * (Len(argv) + 1),
          sp |-> envp + 8 * (Len(argv) + 1) + 8])

\* what execve pushes below stack_bottom, the end of the frame of the first
\* stack page: the env strings, the argv strings, the aux table with
\* AT_EXECFN and AT_NULL, the envp and argv tables and argc.  The result is
\* the distance below stack_bottom of envp, of argv and of the final sp.
ExecveStack(argv, env) ==
    Bind(RoundDownTo(PushStrings(env, 0), 8), LAMBDA envs :
    Bind(RoundDownTo(PushStrings(argv, envs), 8), LAMBDA strings :
    Bind(strings + SizeOfAux * (AuxEntries + 2) + 8 * (Len(env) + 1), LAMBDA envp :
         [envp |-> envp,
          argv |-> envp + 8 * (Len(argv) + 1),
          sp |-> envp + 8 * (Len(argv) + 1) + 8])))

\* the physical frames that hold the len bytes below the end of frame
WrittenBelow(frame, len) == {frame - i : i \in 0..((len - 1) \div PAGE_SIZE)}

RECURSIVE CopyU8Frames(_, _, _)
CopyU8Frames(ph, frames, c) ==
    IF frames = {} THEN ph
    ELSE CopyU8Frames(CopyU8(ph, MaxOf(frames), c), frames \ {MaxOf(frames)}, c)

\* execve of the program with the strings of argv and env, given by their
\* lengths: reset, load_elf, the strings and the tables pushed through the
\* physical address of the end of the stack page; found says whether the
\* path names a file.  The stack pointer and the tables' addresses are kept
\* as offsets from the stack base, which exceeds the model's integers.
ExecveArgs(p, u, found, argv, env) ==
    /\ InUser(p)
    /\ calls < MaxMemCalls
    /\ IF ~found
       THEN /\ process_list' = [process_list EXCEPT
                   ![p] = SyscallReturn(@, u, Syscall_execve, 0, 0, 0, Err("ENOENT"))]
            /\ UNCHANGED <<PAGE_ALLOCATOR, phys>>
       ELSE \E entered \in {SyscallReturn(process_list[p], u, Syscall_execve, 0, 0, 0,
                                          Ok(Len(argv)))} :
            \E reset \in {MemoryReset(PAGE_ALLOCATOR, entered.memory)} :
            \E elf \in {LoadElf(reset.used, [entered EXCEPT !.memory = reset.mem],
                                ExecImagePages, ExecEntry)} :
            \E pushed \in {ExecveStack(argv, env)} :
               /\ PAGE_ALLOCATOR' = elf.used
               /\ phys' = CopyU8Frames(
                              LoadContents(WriteBytes(phys, TableFrames(elf.data.memory)),
                                           elf.data.memory, ExecImagePages),
                              WrittenBelow(elf.data.memory.maps[elf.data.memory.stack_top][1],
                                           pushed.sp),
                              ArgsContent)
               /\ process_list' = [process_list EXCEPT
                      ![p] = [elf.data EXCEPT
                                 !.trap_context.reg[TrapContext_sp] = 0 - pushed.sp,
                                 !.trap_context.reg[TrapContext_a1] = 0 - pushed.argv,
                                 !.trap_context.reg[TrapContext_a2] = 0 - pushed.envp,
                                 !.trap_context.satp = ToSatp(elf.data.memory.page_table)]]
    /\ calls' = calls + 1 /\ UNCHANGED hartvars
    /\ UNCHANGED <<previous_scheduled_pid, cpu_proc, PID_ALLOCATOR, nfiles, panic, pipe,
                   written, delivered, picks, timer, spawned>>

\* execve with no argument and an empty environment
Execve(p, u, found) == ExecveArgs(p, u, found, << >>, << >>)

\* the arguments of the memory study, taken around the regions of the caller
BrkArgs(mem) ==
    {a \in {0, mem.brk, mem.brk + 4 * PAGE_SIZE, mem.brk - 4 * PAGE_SIZE} : a >= 0}

FixedPages(mem) ==
    {VirtPageIdFrom(RoundUp(mem.brk)), VirtPageIdFrom(InitEntry), mem.stack_top,
     mem.mmap_base - 1, mem.mmap_base - 3}

\* the fixed mappings of the study: read-write ones, and a read-only one of
\* the page below the stack
FixedArgs(mem) ==
    {<<vpn, {"R", "W"}>> : vpn \in FixedPages(mem)} \cup {<<mem.stack_top - 1, {"R"}>>}

MunmapPages(mem) == {mem.mmap_base - 1, mem.mmap_base - 2, mem.mmap_base - 3}

FaultPages(mem) == {mem.stack_top - 1, mem.stack_top - 2, mem.mmap_base - 1}

StorePages(mem) == {VirtPageIdFrom(InitEntry), mem.stack_top}

StoredContent == 2

NextMem ==
    \/ Worker(FALSE)
    \/ \E p \in DOMAIN process_list : ReturnToUser(p)
    \/ \E p \in DOMAIN process_list : TimerYield(p)
    \/ \E p \in DOMAIN process_list : spawned < MaxMemProcs /\ Clone(p, U0, 0)
    \/ \E p \in DOMAIN process_list : \E found \in BOOLEAN : Execve(p, U0, found)
    \/ \E p \in DOMAIN process_list :
          \E addr \in BrkArgs(process_list[p].memory) : Brk(p, U0, addr)
    \/ \E p \in DOMAIN process_list :
          \E a \in FixedArgs(process_list[p].memory) : Mmap(p, U0, a[1], 1, a[2], TRUE)
    \/ \E p \in DOMAIN process_list :
          \E pages \in 0..2 : Mmap(p, U0, 0, pages, {"R", "W"}, FALSE)
    \/ \E p \in DOMAIN process_list :
          \E vpn \in MunmapPages(process_list[p].memory) : Munmap(p, U0, vpn, 1)
    \/ \E p \in DOMAIN process_list :
          \E vpn \in FaultPages(process_list[p].memory) : PageFault(p, U0, vpn)
    \/ \E p \in DOMAIN process_list :
          \E vpn \in StorePages(process_list[p].memory) : UserStore(p, vpn, StoredContent)

SpecMem == Init /\ [][NextMem]_vars

-----------------------------------------------------------------------------
(* Claims on brk, mmap, fork and the user stack *)

\* page vpn of mem is mapped with exactly the flags R, W and U, in the maps
\* and in the page table
MappedRWU(mem, vpn) ==
    /\ IsMapped(mem, vpn)
    /\ mem.maps[vpn][2] = {"U", "W", "R"}
    /\ vpn \in DOMAIN mem.page_table.ptes
    /\ mem.page_table.ptes[vpn] = <<mem.maps[vpn][1], PrepareFlags({"U", "W", "R"})>>

\* the pages of the bytes [from, to)
PagesOf(from, to) == VirtPageIdFrom(from)..VirtPageIdFrom(to - 1)

\* C12: for every process, brk(0) returns the break and changes nothing;
\* brk(p + 0x4000) at the break p returns p + 0x4000 with every page of
\* [p, p + 0x4000) mapped R|W|U; and a brk that moves the break back down by
\* 0x4000, not below the end of the program, returns the lower break and
\* sets it, all without a kernel panic.
C12_BrkScenario ==
    [][\A p \in DOMAIN process_list :
          /\ Brk(p, U0, 0)
             => /\ panic' = ""
                /\ process_list'[p].trap_context.reg[TrapContext_a0]
                      = process_list[p].memory.brk
                /\ process_list'[p].memory = process_list[p].memory
          /\ Brk(p, U0, process_list[p].memory.brk + 4 * PAGE_SIZE)
             => /\ panic' = ""
                /\ process_list'[p].trap_context.reg[TrapContext_a0]
                      = process_list[p].memory.brk + 4 * PAGE_SIZE
                /\ \A vpn \in PagesOf(process_list[p].memory.brk,
                                      process_list[p].memory.brk + 4 * PAGE_SIZE) :
                      MappedRWU(process_list'[p].memory, vpn)
          /\ (/\ process_list[p].memory.brk - 4 * PAGE_SIZE
                    >= process_list[p].memory.prog_end
              /\ Brk(p, U0, process_list[p].memory.brk - 4 * PAGE_SIZE))
             => /\ panic' = ""
                /\ process_list'[p].trap_context.reg[TrapContext_a0]
                      = process_list[p].memory.brk - 4 * PAGE_SIZE
                /\ process_list'[p].memory.brk
                      = process_list[p].memory.brk - 4 * PAGE_SIZE]_vars

\* C13: a brk(x) above the break and not below min_brk, whatever calls came
\* before it, returns x and sets the break to x, with every page of
\* [old break, x) mapped R|W|U in the maps and in the page table, and never
\* fails the assertion of set_pte.
C13_SetBrkGrows ==
    [][\A p \in DOMAIN process_list :
          \A addr \in BrkArgs(process_list[p].memory) :
             (/\ addr > process_list[p].memory.brk
              /\ addr >= process_list[p].memory.min_brk
              /\ Brk(p, U0, addr))
             => /\ panic' = ""
                /\ process_list'[p].trap_context.reg[TrapContext_a0] = addr
                /\ process_list'[p].memory.brk = addr
                /\ \A vpn \in PagesOf(process_list[p].memory.brk, addr) :
                      MappedRWU(process_list'[p].memory, vpn)]_vars

-----------------------------------------------------------------------------
(* User pointers handed to system calls *)

\* the content uname leaves in the page of its buffer
UtsNameContent == 4

\* uname: the buffer is translated and unwrapped, then filled
Uname(p, u, buf) ==
    /\ InUser(p)
    /\ IF ~IsSome(Translate(process_list[p].memory, buf))
       THEN /\ panic' = "called Option::unwrap() on a None value"
            /\ process_list' = [process_list EXCEPT
                  ![p].trap_context = EnvCall(@, u, Syscall_uname, buf, 0, 0)]
            /\ UNCHANGED phys
       ELSE /\ phys' = CopyU8(phys, Unwrap(Translate(process_list[p].memory, buf))
                                       \div PAGE_SIZE, UtsNameContent)
            /\ process_list' = [process_list EXCEPT
                  ![p] = SyscallReturn(@, u, Syscall_uname, buf, 0, 0, Ok(0))]
            /\ UNCHANGED panic
    /\ UNCHANGED <<hartvars, calls, previous_scheduled_pid, cpu_proc, PID_ALLOCATOR, PAGE_ALLOCATOR,
                   nfiles, pipe, written, delivered, picks, timer, spawned>>

\* the pointers of the study: NULL, an address of a page that is not mapped,
\* and an address in the first page of the user stack
NullPtr == 0
UnmappedPtr == (PROCESS_MMAP_BASE_PAGE - 1) * PAGE_SIZE
UserPointers == {NullPtr, UnmappedPtr, StatusBuf}

NextPtr ==
    \/ Worker(FALSE)
    \/ \E p \in DOMAIN process_list : TimerYield(p)
    \/ \E p \in DOMAIN process_list : ReturnToUser(p)
    \/ \E p \in DOMAIN process_list : spawned < MaxProcs /\ Clone(p, U0, 0)
    \/ \E p \in DOMAIN process_list, code \in ExitCodes : Exit(p, U0, code)
    \/ \E p \in DOMAIN process_list, pid \in WaitPids, option \in WaitOptions :
          \E buf \in UserPointers : SysWaitFor(p, U0, pid, buf, option)
    \/ \E p \in DOMAIN process_list : WaitForRetry(p)
    \/ \E p \in DOMAIN process_list : \E buf \in UserPointers : Uname(p, U0, buf)

SpecPtr == Init /\ [][NextPtr]_vars

\* C14: a system call that is handed a null pointer or a pointer to a page
\* that is not mapped (wait4's wstatus, uname's buffer) returns to the caller
\* without a kernel panic and leaves the caller's address space as it was;
\* when it returns an error, the process table is as it was.
C14_BadPointerIsAnError ==
    [][\A p \in DOMAIN process_list :
          \A buf \in {NullPtr, UnmappedPtr} :
             (\/ Uname(p, U0, buf)
              \/ \E pid \in WaitPids, option \in WaitOptions :
                    SysWaitFor(p, U0, pid, buf, option))
             => /\ panic' = ""
                /\ process_list'[p].memory = process_list[p].memory
                /\ ~process_list'[p].frame.ret.ok
                   => DOMAIN process_list' = DOMAIN process_list]_vars

\* the pairs of a process and a page it maps
MappedPages ==
    UNION {{<<p, vpn>> : vpn \in DOMAIN process_list[p].memory.maps} :
              p \in DOMAIN process_list}

FrameOf(pv) == process_list[pv[1]].memory.maps[pv[2]][1]

\* no frame is owned by two maps entries, of one address space or of two,
\* and no owned frame is free in the allocator
FramesOwnedOnce ==
    /\ \A a \in MappedPages, b \in MappedPages : FrameOf(a) = FrameOf(b) => a = b
    /\ \A a \in MappedPages : ~FrameIsFree(PAGE_ALLOCATOR, FrameOf(a))

\* the step is a fork by p that created child
ForkedBy(p, child) ==
    /\ child \in DOMAIN process_list' \ DOMAIN process_list
    /\ Clone(p, U0, 0)

\* C15: after a fork every page the parent maps is mapped in the child with
\* the same flags, to a different frame whose content equals the parent's;
\* and in every reachable state no frame is owned by the maps of two address
\* spaces, nor twice by one, nor owned by a map while free in the allocator.
C15_ForkCopiesPages ==
    /\ []FramesOwnedOnce
    /\ [][\A p \in DOMAIN process_list : \A child \in 1..MaxMemProcs :
             (spawned < MaxMemProcs /\ ForkedBy(p, child))
             => \A vpn \in DOMAIN process_list[p].memory.maps :
                   /\ vpn \in DOMAIN process_list'[child].memory.maps
                   /\ process_list'[child].memory.maps[vpn][2]
                         = process_list[p].memory.maps[vpn][2]
                   /\ process_list'[child].memory.maps[vpn][1]
                         # process_list'[p].memory.maps[vpn][1]
                   /\ Content(phys', process_list'[child].memory.maps[vpn][1])
                         = Content(phys, process_list[p].memory.maps[vpn][1])
                   /\ Content(phys', process_list'[p].memory.maps[vpn][1])
                         = Content(phys, process_list[p].memory.maps[vpn][1])]_vars

\* C15 witness: a child forked by a parent that had stored to its stack page
\* and mapped a page with mmap: the child maps both pages to frames of its own
\* and its stack page holds what the parent stored
C15_Witness ==
    \E p \in DOMAIN process_list, child \in DOMAIN process_list :
       /\ process_list[child].parent = Some(p)
       /\ DOMAIN process_list[child].memory.maps = DOMAIN process_list[p].memory.maps
       /\ \E vpn \in DOMAIN process_list[p].memory.maps :
             vpn < process_list[p].memory.mmap_base /\ vpn > VirtPageIdFrom(ExecEntry) + 1
       /\ \E vpn \in DOMAIN process_list[p].memory.maps :
             /\ Content(phys, process_list[p].memory.maps[vpn][1]) = StoredContent
             /\ Content(phys, process_list[child].memory.maps[vpn][1]) = StoredContent
             /\ process_list[child].memory.maps[vpn][1] # process_list[p].memory.maps[vpn][1]

\* page vpn lies below the break, in the program or the region brk grew, or
\* in the live stack [stack_top, stack_base)
InProgramOrStack(mem, vpn) ==
    \/ vpn * PAGE_SIZE < mem.brk
    \/ vpn >= mem.stack_top /\ vpn < mem.stack_base

\* the step is an mmap call of p, fixed or not
MmapCall(p) ==
    \/ \E a \in FixedArgs(process_list[p].memory) : Mmap(p, U0, a[1], 1, a[2], TRUE)
    \/ \E pages \in 0..2 : Mmap(p, U0, 0, pages, {"R", "W"}, FALSE)

\* C16: an mmap call, fixed or not, leaves every mapped page of the program
\* and brk region and of the live stack mapped to the same frame with the
\* same flags and content, and maps no new page in those regions.
C16_MmapKeepsRegions ==
    [][\A p \in DOMAIN process_list :
          MmapCall(p)
          => \A vpn \in DOMAIN process_list'[p].memory.maps
                           \cup DOMAIN process_list[p].memory.maps :
                InProgramOrStack(process_list[p].memory, vpn)
                => /\ vpn \in DOMAIN process_list[p].memory.maps
                   /\ vpn \in DOMAIN process_list'[p].memory.maps
                   /\ process_list'[p].memory.maps[vpn] = process_list[p].memory.maps[vpn]
                   /\ Content(phys', process_list'[p].memory.maps[vpn][1])
                         = Content(phys, process_list[p].memory.maps[vpn][1])]_vars

\* the page the search of mmap takes for the break
BrkPage(mem) == VirtPageIdFrom(RoundUp(ToOffset(mem.brk, -1)))

\* the first pages of the runs of pages unmapped pages that lie below
\* mmap_base and above the brk page and end right below mmap_base or right
\* below a mapped page; the highest run of all is one of them
FreeRuns(mem, pages) ==
    {s \in {mem.mmap_base - pages}
              \cup {m - pages : m \in {v \in DOMAIN mem.maps : v < mem.mmap_base}} :
        /\ s > BrkPage(mem)
        /\ \A vpn \in s..(s + pages - 1) : ~IsMapped(mem, vpn)}

\* C17: a non-fixed mmap of pages pages returns the first address of the
\* highest run of pages unmapped pages below mmap_base and above the brk page,
\* whatever the maps hold, and ENOMEM only when there is no such run.
C17_MmapTakesHighestRun ==
    [][\A p \in DOMAIN process_list : \A pages \in 1..2 :
          Mmap(p, U0, 0, pages, {"R", "W"}, FALSE)
          => /\ panic' = ""
             /\ process_list'[p].frame.ret =
                   IF FreeRuns(process_list[p].memory, pages) = {}
                   THEN Err("ENOMEM")
                   ELSE Ok(MaxOf(FreeRuns(process_list[p].memory, pages)) * PAGE_SIZE)]_vars

\* C18: in a page fault at page vpn, alloc_stack_if_possible returns true,
\* maps exactly one new page, vpn, with R|W|U and lowers stack_top by one page
\* exactly when vpn is the page right below stack_top and is not mapped; then
\* the handler leaves sepc at the faulting instruction.  Otherwise it returns
\* false, the memory of the process is unchanged and the fault is not handled.
C18_StackGrowsByOnePage ==
    [][\A p \in DOMAIN process_list : \A vpn \in FaultPages(process_list[p].memory) :
          PageFault(p, U0, vpn)
          => IF /\ vpn = process_list[p].memory.stack_top - 1
                /\ ~IsMapped(process_list[p].memory, vpn)
             THEN /\ panic' = ""
                  /\ DOMAIN process_list'[p].memory.maps
                        = DOMAIN process_list[p].memory.maps \cup {vpn}
                  /\ \A v \in DOMAIN process_list[p].memory.maps :
                        process_list'[p].memory.maps[v] = process_list[p].memory.maps[v]
                  /\ MappedRWU(process_list'[p].memory, vpn)
                  /\ process_list'[p].memory.stack_top
                        = process_list[p].memory.stack_top - 1
                  /\ process_list'[p].memory.stack_base
                        = process_list[p].memory.stack_base
                  /\ process_list'[p].trap_context.sepc = U0.pc
             ELSE /\ panic' = "Unhandled Page-Fault"
                  /\ process_list'[p].memory = process_list[p].memory
                  /\ PAGE_ALLOCATOR' = PAGE_ALLOCATOR]_vars

\* C18 witness: a process whose stack grew by two faults to three pages, each
\* mapped R|W|U, while the kernel runs on
C18_Witness ==
    \E p \in DOMAIN process_list :
       /\ panic = ""
       /\ process_list[p].memory.stack_base - process_list[p].memory.stack_top = 3
       /\ \A vpn \in process_list[p].memory.stack_top
                        ..(process_list[p].memory.stack_base - 1) :
             MappedRWU(process_list[p].memory, vpn)
       /\ process_list[p].trap_context.sepc = U0.pc

-----------------------------------------------------------------------------
(* The kernel on several harts, one lock operation at a time: the steps.
   A step is what one hart does between two points where another hart, or
   a timer interrupt on the same hart, can come in: one Spinlock::lock, or
   the code up to the next Spinlock::lock, the release of the locks that
   code drops included.  The locks of CPU.trap_info and CPU.cpu_context are
   taken and released inside one step. *)

\* what the steps of the harts leave alone
kernelvars ==
    <<process_list, previous_scheduled_pid, cpu_proc, PID_ALLOCATOR,
      PAGE_ALLOCATOR, nfiles, pipe, written, delivered, picks, timer, phys,
      spawned>>

ManagerLock == <<"manager", 0>>
TimerLock == <<"timer", 0>>
DataLock(p) == <<"data", p>>
CondvarLock(p) == <<"condvar", p>>
CpuLock(h) == <<"cpu", h>>
PipeLock == <<"pipe", 0>>                 \* PipeFile.buffer
PipeCondvarLock(k) == <<"pipe_condvar", k>>

\* the two condvars of the PipeBuffer
WaitRead == 1
WaitWrite == 2

Top(h) == cpus[h].stack[Len(cpus[h].stack)]

\* hart h is about to run the code at pc
At(h, pc) == panic = "" /\ cpus[h].stack # << >> /\ Top(h).pc = pc

SetTop(c, f) == [c EXCEPT !.stack = [@ EXCEPT ![Len(@)] = f]]
Jump(c, pc) == SetTop(c, [c.stack[Len(c.stack)] EXCEPT !.pc = pc])
JumpWith(c, pc, v, w) == SetTop(c, Frame(pc, v, w))
Return(c) == [c EXCEPT !.stack = SubSeq(@, 1, Len(@) - 1)]

\* the outcome of a step of hart h
Do(h, c, l, t, m) ==
    /\ cpus' = [cpus EXCEPT ![h] = c]
    /\ locks' = l
    /\ tasks' = t
    /\ manager' = m
    /\ panic' = panic

\* a panic stops the machine
Halt(msg) ==
    /\ panic' = msg
    /\ UNCHANGED <<cpus, locks, tasks, manager>>

\* SpinlockGuard::drop: store(false)
Released(l) == [locks EXCEPT ![l] = 0]

SetStatus(t, p, s) == [t EXCEPT ![p].status = s]

\* ProcessManager::scheduler's order of visit: the pids behind
\* previous_scheduled_pid, then the others, each group ascending
ScanOrder(m) ==
    SortedSeq({p \in m.process_list : p > m.previous_scheduled_pid})
        \o SortedSeq({p \in m.process_list : p <= m.previous_scheduled_pid})

\* the places where the code calls Spinlock::lock: for the activation f of
\* hart h, the lock it asks for and where it goes on once it has it
NoSite == <<>>

LockSite(h, f) ==
    CASE f.pc = "worker_lock" -> <<ManagerLock, "scheduler">>
      [] f.pc = "scheduler" /\ f.w <= Len(ScanOrder(manager)) ->
            <<DataLock(ScanOrder(manager)[f.w]), "scheduler_match">>
      [] f.pc = "worker_get_process" -> <<CpuLock(h), "worker_got_process">>
      [] f.pc = "worker_ready_lock" -> <<DataLock(f.w), "worker_ready_set">>
      [] f.pc = "worker_running_lock" -> <<DataLock(f.v), "worker_running_set">>
      [] f.pc = "worker_set_process" -> <<CpuLock(h), "worker_set_process_store">>
      [] f.pc = "returner_get_process" -> <<CpuLock(h), "returner_got_process">>
      [] f.pc = "returner_lock" -> <<DataLock(f.v), "returner_unlock">>
      [] f.pc = "do_yield" -> <<CpuLock(h), "do_yield_got_process">>
      [] f.pc = "do_yield_lock" -> <<DataLock(f.v), "yield_process">>
      [] f.pc = "_do_yield" -> <<CpuLock(h), "_do_yield_set_process">>
      [] f.pc = "timer_handler" -> <<TimerLock, "timer_wakeup">>
      [] f.pc = "timer_get_process" -> <<CpuLock(h), "timer_got_process">>
      [] f.pc = "sys_clone" -> <<ManagerLock, "clone_get_process">>
      [] f.pc = "clone_get_process" -> <<CpuLock(h), "clone_got_process">>
      [] f.pc = "clone_lock" -> <<DataLock(f.v), "fork">>
      [] f.pc = "wakeup" -> <<CondvarLock(f.v), "wakeup_pop">>
      [] f.pc = "wakeup_lock" -> <<DataLock(f.w), "wakeup_set">>
      [] f.pc = "condvar_wait" -> <<CpuLock(h), "condvar_wait_got_process">>
      [] f.pc = "condvar_wait_lock" -> <<DataLock(f.v), "condvar_wait_suspend">>
      [] f.pc = "condvar_wait_list" -> <<CondvarLock(f.w), "condvar_wait_push">>
      [] f.pc = "sys_exit" -> <<ManagerLock, "exit_get_process">>
      [] f.pc = "exit_get_process" -> <<CpuLock(h), "exit_got_process">>
      [] f.pc = "exit_lock" -> <<DataLock(f.v), "exit_zombie">>
      [] f.pc = "exit_init_lock" -> <<DataLock(1), "exit_reparent">>
      [] f.pc = "sys_wait4" -> <<CpuLock(h), "wait4_got_process">>
      [] f.pc = "wait4_translate_lock" -> <<DataLock(f.v), "wait4_translate">>
      [] f.pc = "wait_for" -> <<DataLock(f.v), "wait_for_retain">>
      [] f.pc = "wait_child_lock" -> <<DataLock(f.w), "wait_child_check">>
      [] f.pc = "wait_child_remove" -> <<ManagerLock, "wait_child_removed">>
      [] f.pc = "wait_for_manager" -> <<ManagerLock, "wait_for_get">>
      [] f.pc = "wait_for_child_lock" -> <<DataLock(f.w), "wait_for_wait">>
      [] f.pc = "sys_read" -> <<CpuLock(h), "read_got_process">>
      [] f.pc = "read_file_lock" -> <<DataLock(f.v), "read_get_file">>
      [] f.pc = "pipe_read" -> <<PipeLock, "pipe_buffer_read">>
      [] f.pc = "read_copy_lock" -> <<DataLock(f.v), "read_copy">>
      [] f.pc = "sys_write" -> <<CpuLock(h), "write_got_process">>
      [] f.pc = "write_file_lock" -> <<DataLock(f.v), "write_get_file">>
      [] f.pc = "pipe_write" -> <<PipeLock, "pipe_buffer_write">>
      [] f.pc = "pipe_wakeup" -> <<PipeCondvarLock(f.v), "pipe_wakeup_pop">>
      [] f.pc = "pipe_wakeup_lock" -> <<DataLock(f.w), "pipe_wakeup_set">>
      [] f.pc = "pipe_wait" -> <<CpuLock(h), "pipe_wait_got_process">>
      [] f.pc = "pipe_wait_lock" -> <<DataLock(f.v), "pipe_wait_suspend">>
      [] f.pc = "pipe_wait_list" -> <<PipeCondvarLock(f.w), "pipe_wait_push">>
      [] OTHER -> NoSite

\* the lock hart h is asking for, if its next step is a Spinlock::lock
Site(h) == IF cpus[h].stack = << >> THEN NoSite ELSE LockSite(h, Top(h))

\* Spinlock::lock: compare_exchange(false, true) succeeds on a free lock
\* only; on a taken lock the hart spins, it takes no step
SpinlockLock(h) ==
    /\ panic = ""
    /\ Site(h) # NoSite
    /\ locks[Site(h)[1]] = 0
    /\ Do(h, Jump(cpus[h], Site(h)[2]), [locks EXCEPT ![Site(h)[1]] = cpus[h].on],
          tasks, manager)
    /\ UNCHANGED <<interrupts, calls, kernelvars>>

\* ProcessManager::scheduler, called by worker under the manager's lock;
\* the frame's w is the place in the order of visit, v the result
HartScheduler(h) ==
    /\ \/ /\ At(h, "scheduler")
          /\ Top(h).w > Len(ScanOrder(manager))
          /\ Do(h, JumpWith(cpus[h], "worker_unlock", 0, 0), locks, tasks, manager)
       \/ /\ At(h, "scheduler_match")        \* match ... .status
          /\ \E p \in {ScanOrder(manager)[Top(h).w]} :
                IF tasks[p].status = "Ready"
                THEN Do(h, JumpWith(cpus[h], "worker_unlock", p, 0),
                        Released(DataLock(p)), tasks,
                        [manager EXCEPT !.previous_scheduled_pid = p])
                ELSE Do(h, JumpWith(cpus[h], "scheduler", 0, Top(h).w + 1),
                        Released(DataLock(p)), tasks, manager)
    /\ UNCHANGED <<interrupts, calls, kernelvars>>

\* context_switch(old, new) of switch.S: the running stack's continuation is
\* stored through old without any lock, the one stored in new is resumed
SwitchToProcess(c, p, t) ==
    [c EXCEPT !.cpu_context =
                  Context(c.on, [c.stack EXCEPT ![Len(c.stack)] =
                                    Frame("worker", 0, 0)]),
              !.stack = t[p].kernel_task_context.stack,
              !.on = t[p].kernel_task_context.on]

\* worker: the loop of every hart, on the stack the hart booted on.  At wfi
\* the hart stops until it takes an interrupt
WorkerLoop(h) ==
    /\ \/ /\ At(h, "worker")                 \* enable_trap()
          /\ Do(h, JumpWith([cpus[h] EXCEPT !.sie = TRUE], "worker_lock", 0, 1),
                locks, tasks, manager)
       \/ /\ At(h, "worker_unlock")          \* the guard drops with the statement
          /\ Do(h, Jump(cpus[h], IF Top(h).v = 0 THEN "wfi" ELSE "worker_get_process"),
                Released(ManagerLock), tasks, manager)
       \/ /\ At(h, "worker_got_process")
          /\ Do(h, IF cpus[h].proc = 0
                   THEN Jump(cpus[h], "worker_running_lock")
                   ELSE JumpWith(cpus[h], "worker_ready_lock", Top(h).v, cpus[h].proc),
                Released(CpuLock(h)), tasks, manager)
       \/ /\ At(h, "worker_ready_set")
          /\ Do(h, JumpWith(cpus[h], "worker_running_lock", Top(h).v, 0),
                Released(DataLock(Top(h).w)),
                SetStatus(tasks, Top(h).w, "Ready"), manager)
       \/ /\ At(h, "worker_running_set")
          /\ Do(h, Jump(cpus[h], "worker_set_process"), Released(DataLock(Top(h).v)),
                SetStatus(tasks, Top(h).v, "Running"), manager)
       \/ /\ At(h, "worker_set_process_store")
          /\ Do(h, Jump([cpus[h] EXCEPT !.proc = Top(h).v], "worker_switch"),
                Released(CpuLock(h)), tasks, manager)
       \/ /\ At(h, "worker_switch")          \* context_switch(cpu_task_context, new_ctx)
          /\ Do(h, SwitchToProcess(cpus[h], Top(h).v, tasks), locks, tasks, manager)

HartWorker(h) ==
    /\ WorkerLoop(h)
    /\ UNCHANGED <<interrupts, calls, kernelvars>>

\* user_trap_returner: back to user mode with the trap context of CPU.proc;
\* the next trap from user mode starts on the empty kernel stack of that
\* process (TrapContext.kernel_sp)
HartUserTrapReturner(h) ==
    /\ \/ /\ At(h, "user_trap_returner")     \* disable_trap()
          /\ Do(h, Jump([cpus[h] EXCEPT !.sie = FALSE], "returner_get_process"),
                locks, tasks, manager)
       \/ /\ At(h, "returner_got_process")   \* .unwrap()
          /\ cpus[h].proc # 0
          /\ Do(h, JumpWith(cpus[h], "returner_lock", cpus[h].proc, 0),
                Released(CpuLock(h)), tasks, manager)
       \/ /\ At(h, "returner_got_process")
          /\ cpus[h].proc = 0
          /\ Halt("called Option::unwrap() on a None value")
       \/ /\ At(h, "returner_unlock")        \* trap_ret_u: sret with SPIE set
          /\ Do(h, [cpus[h] EXCEPT !.stack = <<Frame("user", 0, 0)>>,
                                   !.on = Top(h).v,
                                   !.sie = TRUE],
                Released(DataLock(Top(h).v)), tasks, manager)
    /\ UNCHANGED <<interrupts, calls, kernelvars>>

\* context_switch(old_ctx, new_ctx) in _do_yield: old_ctx is the
\* kernel_task_context of process p, new_ctx the hart's cpu_context
SwitchToWorker(c) ==
    [c EXCEPT !.stack = c.cpu_context.stack, !.on = c.cpu_context.on]

SaveContext(t, p, c) ==
    [t EXCEPT ![p].kernel_task_context =
                  Context(c.on, [c.stack EXCEPT ![Len(c.stack)] =
                                    Frame("_do_yield_resumed", 0, 0)])]

\* do_yield, yield_process and _do_yield; the frame's v is proc
HartDoYield(h) ==
    /\ \/ /\ At(h, "do_yield_got_process")   \* get_process().unwrap()
          /\ cpus[h].proc # 0
          /\ Do(h, JumpWith(cpus[h], "do_yield_lock", cpus[h].proc, 0),
                Released(CpuLock(h)), tasks, manager)
       \/ /\ At(h, "do_yield_got_process")
          /\ cpus[h].proc = 0
          /\ Halt("called Option::unwrap() on a None value")
       \/ /\ At(h, "yield_process")          \* Running => Ready; the guard drops
          /\ Do(h, Jump(cpus[h], "_do_yield"), Released(DataLock(Top(h).v)),
                [tasks EXCEPT ![Top(h).v] = YieldProcess(@)], manager)
       \/ /\ At(h, "_do_yield_set_process")
          /\ Do(h, Jump([cpus[h] EXCEPT !.proc = 0], "context_switch"),
                Released(CpuLock(h)), tasks, manager)
       \/ /\ At(h, "context_switch")
          /\ cpus[h].cpu_context # ZeroContext
          /\ Do(h, SwitchToWorker(cpus[h]), locks,
                SaveContext(tasks, Top(h).v, cpus[h]), manager)
       \/ /\ At(h, "context_switch")         \* ra = 0 is no code
          /\ cpus[h].cpu_context = ZeroContext
          /\ Halt("context_switch to a TaskContext that was never stored")
       \/ /\ At(h, "_do_yield_resumed")      \* set_trap_enabled(trap_enabled)
          /\ Do(h, Return(cpus[h]), locks, tasks, manager)
    /\ UNCHANGED <<interrupts, calls, kernelvars>>

\* timer::handler; TIMER_CONDVAR has no waiter in this study
HartTimerHandler(h) ==
    /\ \/ /\ At(h, "timer_wakeup")           \* TIMER_CONDVAR.wakeup() finds no waiter
          /\ Do(h, Jump(cpus[h], "timer_get_process"), Released(TimerLock), tasks, manager)
       \/ /\ At(h, "timer_got_process")      \* if .is_some() { do_yield() }
          /\ Do(h, IF cpus[h].proc = 0
                   THEN Return(cpus[h])
                   ELSE JumpWith(cpus[h], "do_yield", 0, 0),
                Released(CpuLock(h)), tasks, manager)
    /\ UNCHANGED <<interrupts, calls, kernelvars>>

\* a supervisor timer interrupt on a hart whose timer is set and whose
\* sstatus.SIE is on.  From user mode: user_trap_handler, the handler, then
\* user_trap_returner.  From the kernel: kernel_trap_handler runs the handler
\* on top of the interrupted code and returns into it
HartTimerInterrupt(h) ==
    /\ panic = ""
    /\ cpus[h].sie
    /\ cpus[h].timer
    /\ interrupts < MaxInterrupts
    /\ cpus[h].stack # << >>
    /\ interrupts' = interrupts + 1
    /\ IF Top(h).pc = "user"
       THEN cpus' = [cpus EXCEPT ![h].sie = FALSE,
                                 ![h].stack = <<Frame("user_trap_returner", 0, 0),
                                                Frame("timer_handler", 0, 0)>>]
       ELSE cpus' = [cpus EXCEPT ![h].sie = FALSE,
                                 ![h].stack =
                                     [@ EXCEPT ![Len(@)].pc =
                                         IF @ = "wfi" THEN "worker" ELSE @]
                                     \o <<Frame("kernel_trap_return", 0, 0),
                                          Frame("timer_handler", 0, 0)>>]
    /\ UNCHANGED <<locks, tasks, manager, panic, calls, kernelvars>>

\* the end of kernel_trap_handler: sret restores sstatus.SIE from SPIE
HartKernelTrapReturn(h) ==
    /\ At(h, "kernel_trap_return")
    /\ Do(h, Return([cpus[h] EXCEPT !.sie = TRUE]), locks, tasks, manager)
    /\ UNCHANGED <<interrupts, calls, kernelvars>>

\* a system call from user mode: the trap turns sstatus.SIE off, and
\* user_trap_handler ends in user_trap_returner
Trap(c, f) ==
    [c EXCEPT !.sie = FALSE, !.stack = <<Frame("user_trap_returner", 0, 0), f>>]

\* Arc::strong_count of process p: ProcessManager.process_list, every
\* CPU.proc, and the locals of the activations that hold an Arc<Process>
HoldsV ==
    {"worker_unlock", "worker_get_process", "worker_got_process",
     "worker_ready_lock", "worker_ready_set", "worker_running_lock",
     "worker_running_set", "worker_set_process", "worker_set_process_store",
     "do_yield_lock", "yield_process", "returner_lock", "returner_unlock",
     "clone_lock", "fork", "exit_assert", "exit_lock", "exit_zombie",
     "exit_init_lock", "exit_reparent", "exit_return",
     "wait4_translate_lock", "wait4_translate", "wait_for", "wait_for_retain",
     "wait_for_children", "wait_for_none", "wait_for_manager", "wait_for_get",
     "wait_for_child_lock", "wait_for_wait", "wait_for_waited", "wait_for_yield",
     "condvar_wait_lock", "condvar_wait_suspend", "condvar_wait_list",
     "condvar_wait_push",
     "read_file_lock", "read_get_file", "pipe_read", "pipe_buffer_read",
     "pipe_read_waited", "pipe_read_return", "read_copy_lock", "read_copy",
     "write_file_lock", "write_get_file", "pipe_write", "pipe_buffer_write",
     "pipe_write_result", "pipe_write_waited",
     "pipe_wait_lock", "pipe_wait_suspend", "pipe_wait_list", "pipe_wait_push"}

HoldsW ==
    {"worker_ready_lock", "worker_ready_set",
     "wait_child_lock", "wait_child_check", "wait_child_remove",
     "wait_child_removed", "wait_child_assert", "wakeup_lock", "wakeup_set",
     "pipe_wakeup_lock", "pipe_wakeup_set"}

RECURSIVE HeldIn(_, _)
HeldIn(stack, p) ==
    IF stack = << >> THEN 0
    ELSE HeldIn(Tail(stack), p)
            + (IF Head(stack).pc \in HoldsV /\ Head(stack).v = p THEN 1 ELSE 0)
            + (IF Head(stack).pc \in HoldsW /\ Head(stack).w = p THEN 1 ELSE 0)

\* what hart h adds: its CPU.proc, the stack it is on, and its stored
\* worker when it is on a process's stack
HartHolds(h, p) ==
    (IF cpus[h].proc = p THEN 1 ELSE 0)
        + HeldIn(cpus[h].stack, p)
        + (IF cpus[h].on = IdleStack(h) THEN 0 ELSE HeldIn(cpus[h].cpu_context.stack, p))

RECURSIVE HartsHold(_, _)
HartsHold(n, p) == IF n = 0 THEN 0 ELSE HartsHold(n - 1, p) + HartHolds(n, p)

\* what the stored context of process q adds, when no hart is on q's stack
RECURSIVE StoredHold(_, _)
StoredHold(n, p) ==
    IF n = 0 THEN 0
    ELSE StoredHold(n - 1, p)
            + (IF \E h \in Harts : cpus[h].on = n THEN 0
               ELSE HeldIn(tasks[n].kernel_task_context.stack, p))

StrongCount(p) ==
    (IF p \in manager.process_list THEN 1 ELSE 0)
        + HartsHold(NumHarts, p)
        + StoredHold(Cardinality(DOMAIN tasks), p)

\* a call: the caller goes on at ret when the callee returns
Call(c, ret, f) == [Jump(c, ret) EXCEPT !.stack = Append(@, f)]

\* ProcessManager::spawn in fork: Pid::new gives the next pid
NewPid == Cardinality(DOMAIN tasks) + 1

\* syscall clone: get_process_manager().lock().fork(current process), then
\* do_yield().  The child's lock is new and nobody else can reach the
\* child before the manager is unlocked
HartClone(h) ==
    /\ \/ /\ At(h, "clone_got_process")      \* get_current_process().unwrap()
          /\ cpus[h].proc # 0
          /\ Do(h, JumpWith(cpus[h], "clone_lock", cpus[h].proc, 0),
                Released(CpuLock(h)), tasks, manager)
       \/ /\ At(h, "clone_got_process")
          /\ cpus[h].proc = 0
          /\ Halt("called Option::unwrap() on a None value")
       \/ /\ At(h, "fork")                   \* spawn, copy, drop both guards
          /\ Do(h, Jump(cpus[h], "clone_unlock"), Released(DataLock(Top(h).v)),
                [tasks EXCEPT ![Top(h).v].children = Append(@, NewPid)]
                    @@ (NewPid :> TaskNew(NewPid)),
                [manager EXCEPT !.process_list = @ \cup {NewPid}])
       \/ /\ At(h, "clone_unlock")           \* the manager's guard drops; do_yield()
          /\ Do(h, JumpWith(cpus[h], "do_yield", 0, 0), Released(ManagerLock),
                tasks, manager)
    /\ UNCHANGED <<interrupts, calls, kernelvars>>

\* Condvar::wakeup of p's condvar_waiting_for_exit; the frame's v is p,
\* w the process popped from the list
HartCondvarWakeup(h) ==
    /\ \/ /\ At(h, "wakeup_pop")             \* the list is empty: return
          /\ tasks[Top(h).v].waiting_list = << >>
          /\ Do(h, Return(cpus[h]), Released(CondvarLock(Top(h).v)), tasks, manager)
       \/ /\ At(h, "wakeup_pop")             \* pop(), upgrade()
          /\ tasks[Top(h).v].waiting_list # << >>
          /\ \E q \in {tasks[Top(h).v].waiting_list[Len(tasks[Top(h).v].waiting_list)]} :
                Do(h, IF StrongCount(q) > 0
                      THEN JumpWith(cpus[h], "wakeup_lock", Top(h).v, q)
                      ELSE cpus[h],
                   locks,
                   [tasks EXCEPT ![Top(h).v].waiting_list = SubSeq(@, 1, Len(@) - 1)],
                   manager)
       \/ /\ At(h, "wakeup_set")             \* .status = Ready
          /\ Do(h, JumpWith(cpus[h], "wakeup_pop", Top(h).v, 0),
                Released(DataLock(Top(h).w)),
                SetStatus(tasks, Top(h).w, "Ready"), manager)
    /\ UNCHANGED <<interrupts, calls, kernelvars>>

\* Condvar::wait on p's condvar_waiting_for_exit; the frame's w is p, v the
\* current process
HartCondvarWait(h) ==
    /\ \/ /\ At(h, "condvar_wait_got_process")   \* get_process().unwrap()
          /\ cpus[h].proc # 0
          /\ Do(h, JumpWith(cpus[h], "condvar_wait_lock", cpus[h].proc, Top(h).w),
                Released(CpuLock(h)), tasks, manager)
       \/ /\ At(h, "condvar_wait_got_process")
          /\ cpus[h].proc = 0
          /\ Halt("called Option::unwrap() on a None value")
       \/ /\ At(h, "condvar_wait_suspend")   \* .status = Suspend
          /\ Do(h, Jump(cpus[h], "condvar_wait_list"), Released(DataLock(Top(h).v)),
                SetStatus(tasks, Top(h).v, "Suspend"), manager)
       \/ /\ At(h, "condvar_wait_push")      \* .waiting_list.push
          /\ Do(h, Return(cpus[h]), Released(CondvarLock(Top(h).w)),
                [tasks EXCEPT ![Top(h).w].waiting_list = Append(@, Top(h).v)],
                manager)
    /\ UNCHANGED <<interrupts, calls, kernelvars>>

\* syscall exit: get_process_manager().lock().exit(current process, code),
\* then do_yield(); the frame's v is proc
HartExit(h) ==
    /\ \/ /\ At(h, "exit_got_process")       \* get_current_process().unwrap()
          /\ cpus[h].proc # 0
          /\ Do(h, JumpWith(cpus[h], "exit_assert", cpus[h].proc, 0),
                Released(CpuLock(h)), tasks, manager)
       \/ /\ At(h, "exit_got_process")
          /\ cpus[h].proc = 0
          /\ Halt("called Option::unwrap() on a None value")
       \/ /\ At(h, "exit_assert")
          /\ StrongCount(Top(h).v) = 3
          /\ Top(h).v # 1
          /\ Do(h, Jump(cpus[h], "exit_lock"), locks, tasks, manager)
       \/ /\ At(h, "exit_assert")            \* assert_eq!(strong_count, 3, ...)
          /\ StrongCount(Top(h).v) # 3
          /\ Halt("There is some other holding process' strong ref.")
       \/ /\ At(h, "exit_assert")            \* assert_ne!(proc.pid.pid(), 1, ...)
          /\ StrongCount(Top(h).v) = 3
          /\ Top(h).v = 1
          /\ Halt("Init process want exit!")
       \/ /\ At(h, "exit_zombie")            \* status, exit_code, memory.reset()
          /\ Do(h, Jump(cpus[h], "exit_init_lock"), locks,
                SetStatus(tasks, Top(h).v, "Zombie"), manager)
       \/ /\ At(h, "exit_reparent")          \* the children go to init; wakeup()
          /\ Do(h, Call(cpus[h], "exit_return", Frame("wakeup", Top(h).v, 0)),
                Released(DataLock(1)),
                [tasks EXCEPT ![1].children = @ \o Reverse(tasks[Top(h).v].children),
                              ![Top(h).v].children = << >>],
                manager)
       \/ /\ At(h, "exit_return")            \* both guards drop; do_yield()
          /\ Do(h, JumpWith(cpus[h], "do_yield", 0, 0),
                [Released(DataLock(Top(h).v)) EXCEPT ![ManagerLock] = 0],
                tasks, manager)
    /\ UNCHANGED <<interrupts, calls, kernelvars>>

\* the activation of ProcessManager::wait_for under the loop over children
Caller(h) == cpus[h].stack[Len(cpus[h].stack) - 1]

\* leave the loop over the children: back in wait_for at pc
LeaveLoop(c, pc) == Jump(Return(c), pc)

\* syscall wait4 with option 0: wait_for of syscall/process.rs and
\* ProcessManager::wait_for.  The frame's v is the calling process, w the
\* pid waited for; the loop over the children has a frame of its own, with
\* v the place in the list and w the child
HartWaitFor(h) ==
    /\ \/ /\ At(h, "wait4_got_process")      \* get_current_process().unwrap()
          /\ cpus[h].proc # 0
          /\ Do(h, JumpWith(cpus[h], "wait4_translate_lock", cpus[h].proc, Top(h).w),
                Released(CpuLock(h)), tasks, manager)
       \/ /\ At(h, "wait4_got_process")
          /\ cpus[h].proc = 0
          /\ Halt("called Option::unwrap() on a None value")
       \/ /\ At(h, "wait4_translate")
          /\ Do(h, Jump(cpus[h], "wait_for"), Released(DataLock(Top(h).v)), tasks, manager)
       \/ /\ At(h, "wait_for_retain")        \* children.retain(strong_count > 0)
          /\ \E alive \in {SelectSeq(tasks[Top(h).v].children,
                                     LAMBDA c : StrongCount(c) > 0)} :
                IF alive = << >>
                THEN Do(h, Return(cpus[h]), Released(DataLock(Top(h).v)),
                        [tasks EXCEPT ![Top(h).v].children = alive], manager)
                ELSE Do(h, Call(cpus[h], "wait_for_children", Frame("wait_child", 1, 0)),
                        locks, [tasks EXCEPT ![Top(h).v].children = alive], manager)
       \/ /\ At(h, "wait_child")             \* the list is through
          /\ Top(h).v > Len(tasks[Caller(h).v].children)
          /\ Do(h, LeaveLoop(cpus[h], "wait_for_none"), locks, tasks, manager)
       \/ /\ At(h, "wait_child")             \* child.upgrade().unwrap()
          /\ Top(h).v <= Len(tasks[Caller(h).v].children)
          /\ Do(h, JumpWith(cpus[h], "wait_child_lock", Top(h).v,
                            tasks[Caller(h).v].children[Top(h).v]),
                locks, tasks, manager)
       \/ /\ At(h, "wait_child_check")       \* a zombie that is waited for?
          /\ Do(h, IF /\ tasks[Top(h).w].status = "Zombie"
                      /\ Caller(h).w \in {0 - 1, Top(h).w}
                   THEN Jump(cpus[h], "wait_child_remove")
                   ELSE JumpWith(cpus[h], "wait_child", Top(h).v + 1, 0),
                Released(DataLock(Top(h).w)), tasks, manager)
       \/ /\ At(h, "wait_child_removed")     \* .process_list.remove(pid)
          /\ Do(h, Jump(cpus[h], "wait_child_assert"), Released(ManagerLock), tasks,
                [manager EXCEPT !.process_list = @ \ {Top(h).w}])
       \/ /\ At(h, "wait_child_assert")      \* break 'outer Ok(pid)
          /\ StrongCount(Top(h).w) = 1
          /\ Do(h, Return(Return(cpus[h])), Released(DataLock(Caller(h).v)), tasks, manager)
       \/ /\ At(h, "wait_child_assert")      \* assert_eq!(strong_count(&child), 1, ...)
          /\ StrongCount(Top(h).w) # 1
          /\ Halt("Still someone holding child...")
       \/ /\ At(h, "wait_for_none")          \* drop(proc_data)
          /\ Do(h, Jump(cpus[h], IF Top(h).w > 0 THEN "wait_for_manager" ELSE "wait_for_yield"),
                Released(DataLock(Top(h).v)), tasks, manager)
       \/ /\ At(h, "wait_for_get")           \* process_list.get(pid)
          /\ IF Top(h).w \in manager.process_list
             THEN Do(h, Jump(cpus[h], "wait_for_child_lock"), locks, tasks, manager)
             ELSE Do(h, Return(cpus[h]), Released(ManagerLock), tasks, manager)
       \/ /\ At(h, "wait_for_wait")          \* condvar_waiting_for_exit.wait()
          /\ Do(h, Call(cpus[h], "wait_for_waited", Frame("condvar_wait", 0, Top(h).w)),
                locks, tasks, manager)
       \/ /\ At(h, "wait_for_waited")        \* both guards drop
          /\ Do(h, Jump(cpus[h], "wait_for_yield"),
                [Released(DataLock(Top(h).w)) EXCEPT ![ManagerLock] = 0],
                tasks, manager)
       \/ /\ At(h, "wait_for_yield")         \* do_yield(); then the loop again
          /\ Do(h, Call(cpus[h], "wait_for", Frame("do_yield", 0, 0)), locks, tasks, manager)
    /\ UNCHANGED <<interrupts, calls, kernelvars>>

\* the user program of this study: init forks a child and waits for it,
\* again and again; the child exits.  p is the process in user mode
HartSyscall(p) ==
    IF p # 1 THEN Frame("sys_exit", 0, 0)
    ELSE IF Cardinality(DOMAIN tasks) < MaxHartProcs THEN Frame("sys_clone", 0, 0)
    ELSE Frame("sys_wait4", 0, Cardinality(DOMAIN tasks))

\* user_trap_handler on UserEnvCall: syscall_handler runs the call
HartUserTrap(h) ==
    /\ At(h, "user")
    /\ calls < MaxHartCalls
    /\ calls' = calls + 1
    /\ Do(h, Trap(cpus[h], HartSyscall(cpus[h].on)), locks, tasks, manager)
    /\ UNCHANGED <<interrupts, kernelvars>>

NextHarts ==
    \/ \E h \in Harts : SpinlockLock(h)
    \/ \E h \in Harts : HartUserTrap(h)
    \/ \E h \in Harts : HartWorker(h)
    \/ \E h \in Harts : HartScheduler(h)
    \/ \E h \in Harts : HartUserTrapReturner(h)
    \/ \E h \in Harts : HartDoYield(h)
    \/ \E h \in Harts : HartTimerHandler(h)
    \/ \E h \in Harts : HartTimerInterrupt(h)
    \/ \E h \in Harts : HartKernelTrapReturn(h)
    \/ \E h \in Harts : HartClone(h)
    \/ \E h \in Harts : HartCondvarWakeup(h)
    \/ \E h \in Harts : HartCondvarWait(h)
    \/ \E h \in Harts : HartExit(h)
    \/ \E h \in Harts : HartWaitFor(h)

SpecHarts == Init /\ [][NextHarts]_vars

-----------------------------------------------------------------------------
(* Claims about several harts *)

\* hart h runs on the kernel stack of process p: from the context_switch
\* into p's kernel_task_context to the end of p's context_switch out
Executes(h, p) == cpus[h].on = p

\* the worker of hart h holds p as the result of scheduler() and has not
\* switched into it yet
Selected(h, p) ==
    \E i \in DOMAIN cpus[h].stack :
        /\ cpus[h].stack[i].v = p
        /\ cpus[h].stack[i].pc \in
               {"worker_unlock", "worker_get_process", "worker_got_process",
                "worker_ready_lock", "worker_ready_set", "worker_running_lock",
                "worker_running_set", "worker_set_process",
                "worker_set_process_store", "worker_switch"}

(* C19: with two or more harts, no two harts hold the same process as the
   result of scheduler() at the same time, and no process is executed by two
   harts at the same time: no hart runs on a process's kernel stack while
   another hart has not yet left it through context_switch. *)
C19_OneHartPerProcess ==
    \A p \in DOMAIN tasks :
        /\ Cardinality({h \in Harts : Selected(h, p)}) <= 1
        /\ Cardinality({h \in Harts : Executes(h, p)}) <= 1

\* hart h is in Spinlock::lock on a lock that is taken
Spins(h) == Site(h) # NoSite /\ locks[Site(h)[1]] # 0

\* the harts that run on the stack whose code took the lock hart h asks for
Holders(h) == {g \in Harts : cpus[g].on = locks[Site(h)[1]]}

\* a set of harts none of which can ever go on: each spins with interrupts
\* off, and the lock it asks for was taken on a stack that harts of the set,
\* and no others, run on
Closed(S) ==
    /\ S # {}
    /\ \A h \in S :
          /\ Spins(h)
          /\ ~cpus[h].sie
          /\ Holders(h) # {}
          /\ Holders(h) \subseteq S

\* the harts that spin forever
Stuck == UNION {S \in SUBSET Harts : Closed(S)}

(* C20: no reachable state has a hart spinning forever on a spinlock: no
   hart asks for a lock that it holds itself, and no harts wait for each
   other's locks in a cycle. *)
C20_NoHartSpinsForever == Stuck = {}

-----------------------------------------------------------------------------
(* Claims about wait_for, exit and the locks on several harts *)

\* some hart runs on the kernel stack of process p
OnAHart(p) == \E h \in Harts : cpus[h].on = p

\* process p is in the waiting list of c's condvar_waiting_for_exit
WaitsForExitOf(p, c) ==
    \E i \in DOMAIN tasks[c].waiting_list : tasks[c].waiting_list[i] = p

\* some hart is inside ProcessManager::exit of process c
Exiting(c) ==
    \E h \in Harts : \E i \in DOMAIN cpus[h].stack :
        /\ cpus[h].stack[i].v = c
        /\ cpus[h].stack[i].pc \in
               {"exit_assert", "exit_lock", "exit_zombie", "exit_init_lock",
                "exit_reparent", "exit_return"}

\* p was switched out in status Suspend, in the waiting list of a child c
\* that is a Zombie and whose exit, wakeup included, is over
LeftSuspended(p, c) ==
    /\ tasks[c].status = "Zombie"
    /\ ~Exiting(c)
    /\ tasks[p].status = "Suspend"
    /\ WaitsForExitOf(p, c)
    /\ ~OnAHart(p)

(* C21: a parent that waits with wait4(pid, _, 0) for a live child is never
   left in status Suspend, switched out and waiting for the wakeup of that
   child's exit, when the child is a Zombie and its exit is over: no wakeup
   is lost. *)
C21_NoLostWakeup ==
    \A p \in DOMAIN tasks : \A c \in DOMAIN tasks : ~LeftSuspended(p, c)

-----------------------------------------------------------------------------
(* Claims about processes that wait on a pipe *)

\* p was suspended by PipeFile::read (at = "pipe_read") or by PipeFile::write
\* (at = "pipe_write") and has not been made Ready since
SuspendedIn(p, at) ==
    /\ process_list[p].status = "Suspend"
    /\ process_list[p].kernel_task_context.ra = at

(* C22: a reader suspended in PipeFile::read on an empty pipe is made Ready
   by the next write that puts at least one byte into the pipe and by the
   close of the write end; a writer suspended on an incomplete write is made
   Ready by the next read that removes bytes and by the close of the read
   end. *)
C22_WaitersAreWoken ==
    [][\A p \in DOMAIN process_list :
          /\ (/\ SuspendedIn(p, "pipe_read")
              /\ \/ pipe'.n_write > pipe.n_write
                 \/ pipe.write_open /\ ~pipe'.write_open)
                => process_list'[p].status = "Ready"
          /\ (/\ SuspendedIn(p, "pipe_write")
              /\ \/ pipe'.n_read > pipe.n_read
                 \/ pipe.read_open /\ ~pipe'.read_open)
                => process_list'[p].status = "Ready"]_vars

-----------------------------------------------------------------------------
(* Claims about the locks a hart holds *)

\* the locks taken by code on the stack hart h runs on, not released yet
HeldBy(h) == {l \in LockIds : locks[l] = cpus[h].on}

\* no other hart runs on the stack hart h runs on: the locks of HeldBy(h)
\* were taken by hart h or by the code it resumed
Alone(h) == \A g \in Harts \ {h} : cpus[g].on # cpus[h].on

\* the locks of ProcessData
DataLocks == {DataLock(p) : p \in 1..(MaxHartProcs + 1)}

(* C23: the process-manager lock is taken before any process data lock: no
   hart asks for the process-manager lock while it holds the data lock of
   a process (stated for the harts that are alone on their stack). *)
C23_ManagerLockFirst ==
    \A h \in Harts :
        (Alone(h) /\ Site(h) # NoSite /\ Site(h)[1] = ManagerLock)
            => HeldBy(h) \cap DataLocks = {}

-----------------------------------------------------------------------------
(* The pipe on several harts: PipeFile::read and PipeFile::write under the
   system calls read and write, one lock operation at a time.  The pipe is
   driven at the PipeFile level, its two ends reachable by the processes *)

\* what the steps on the pipe leave alone
pipeleft ==
    <<process_list, previous_scheduled_pid, cpu_proc, PID_ALLOCATOR,
      PAGE_ALLOCATOR, nfiles, written, delivered, picks, timer, phys, spawned>>

\* the waiting_list of condvar k of the pipe
PipeList(b, k) == IF k = WaitRead THEN b.wait_read ELSE b.wait_write

SetPipeList(b, k, l) ==
    IF k = WaitRead THEN [b EXCEPT !.wait_read = l] ELSE [b EXCEPT !.wait_write = l]

\* the buffers user code passes to read and write in this study
HartPipeBuf == <<Byte(1)>>

\* syscall read on the read end: the frame's v is proc
HartPipeRead(h) ==
    /\ \/ /\ At(h, "read_got_process")       \* get_current_process().unwrap()
          /\ cpus[h].proc # 0
          /\ Do(h, JumpWith(cpus[h], "read_file_lock", cpus[h].proc, 0),
                Released(CpuLock(h)), tasks, manager)
          /\ pipe' = pipe
       \/ /\ At(h, "read_got_process")
          /\ cpus[h].proc = 0
          /\ Halt("called Option::unwrap() on a None value")
          /\ pipe' = pipe
       \/ /\ At(h, "read_get_file")          \* get_file_from_fd; drop(proc_data)
          /\ Do(h, Jump(cpus[h], "pipe_read"), Released(DataLock(Top(h).v)),
                tasks, manager)
          /\ pipe' = pipe
       \/ /\ At(h, "pipe_buffer_read")       \* buffer.read(buf), under the buffer's lock
          /\ \E r \in {PipeBufferRead(pipe, Len(HartPipeBuf))} :
                /\ pipe' = [r.buffer EXCEPT !.wait_write = pipe.wait_write]
                /\ Do(h, IF ReadMustWait(r.result, r.buffer)
                         THEN Call(cpus[h], "pipe_read_waited",
                                   Frame("pipe_wait", 0, WaitWrite))
                         ELSE IF r.bytes # << >>
                         THEN Call(cpus[h], "pipe_read_return",
                                   Frame("pipe_wakeup", WaitWrite, 0))
                         ELSE Jump(cpus[h], "pipe_read_return"),
                      locks, tasks, manager)
       \/ /\ At(h, "pipe_read_waited")       \* drop(buffer); do_yield(); loop
          /\ Do(h, Call(cpus[h], "pipe_read", Frame("do_yield", 0, 0)),
                Released(PipeLock), tasks, manager)
          /\ pipe' = pipe
       \/ /\ At(h, "pipe_read_return")       \* return: the buffer's guard drops
          /\ Do(h, Jump(cpus[h], "read_copy_lock"), Released(PipeLock), tasks, manager)
          /\ pipe' = pipe
       \/ /\ At(h, "read_copy")              \* copy to the user buffer, Ok(read_size)
          /\ Do(h, Return(cpus[h]), Released(DataLock(Top(h).v)), tasks, manager)
          /\ pipe' = pipe
    /\ UNCHANGED <<interrupts, calls, pipeleft>>

\* syscall write on the write end: the frame's v is proc, w total_wrote
HartPipeWrite(h) ==
    /\ \/ /\ At(h, "write_got_process")      \* get_current_process().unwrap()
          /\ cpus[h].proc # 0
          /\ Do(h, JumpWith(cpus[h], "write_file_lock", cpus[h].proc, 0),
                Released(CpuLock(h)), tasks, manager)
          /\ pipe' = pipe
       \/ /\ At(h, "write_got_process")
          /\ cpus[h].proc = 0
          /\ Halt("called Option::unwrap() on a None value")
          /\ pipe' = pipe
       \/ /\ At(h, "write_get_file")         \* get_file_from_fd; drop(proc_data)
          /\ Do(h, Jump(cpus[h], "pipe_write"), Released(DataLock(Top(h).v)),
                tasks, manager)
          /\ pipe' = pipe
       \/ /\ At(h, "pipe_buffer_write")      \* buffer.write(&buf[total_wrote..])
          /\ \E r \in {PipeBufferWrite(pipe, SubSeq(HartPipeBuf, Top(h).w + 1,
                                                  Len(HartPipeBuf)))} :
                /\ pipe' = [r.buffer EXCEPT !.wait_read = pipe.wait_read]
                /\ Do(h, IF r.bytes # << >>
                         THEN Call(JumpWith(cpus[h], "pipe_write_result", Top(h).v,
                                            Top(h).w + Len(r.bytes)),
                                   "pipe_write_result",
                                   Frame("pipe_wakeup", WaitRead, 0))
                         ELSE Jump(cpus[h], "pipe_write_result"),
                      locks, tasks, manager)
       \/ /\ At(h, "pipe_write_result")      \* None: Err; incomplete: wait; else Ok
          /\ Do(h, IF pipe.read_open /\ Top(h).w # Len(HartPipeBuf)
                   THEN Call(cpus[h], "pipe_write_waited",
                             Frame("pipe_wait", 0, WaitRead))
                   ELSE Return(cpus[h]),
                IF pipe.read_open /\ Top(h).w # Len(HartPipeBuf)
                THEN locks ELSE Released(PipeLock),
                tasks, manager)
          /\ pipe' = pipe
       \/ /\ At(h, "pipe_write_waited")      \* drop(buffer); do_yield(); loop
          /\ Do(h, Call(cpus[h], "pipe_write", Frame("do_yield", 0, 0)),
                Released(PipeLock), tasks, manager)
          /\ pipe' = pipe
    /\ UNCHANGED <<interrupts, calls, pipeleft>>

\* Condvar::wakeup of a condvar of the pipe; the frame's v is the condvar,
\* w the process popped from the list
HartPipeCondvarWakeup(h) ==
    /\ \/ /\ At(h, "pipe_wakeup_pop")        \* the list is empty: return
          /\ PipeList(pipe, Top(h).v) = << >>
          /\ Do(h, Return(cpus[h]), Released(PipeCondvarLock(Top(h).v)), tasks, manager)
          /\ pipe' = pipe
       \/ /\ At(h, "pipe_wakeup_pop")        \* pop(), upgrade()
          /\ PipeList(pipe, Top(h).v) # << >>
          /\ \E l \in {PipeList(pipe, Top(h).v)} :
                /\ Do(h, IF StrongCount(l[Len(l)]) > 0
                         THEN JumpWith(cpus[h], "pipe_wakeup_lock", Top(h).v, l[Len(l)])
                         ELSE cpus[h],
                      locks, tasks, manager)
                /\ pipe' = SetPipeList(pipe, Top(h).v, SubSeq(l, 1, Len(l) - 1))
       \/ /\ At(h, "pipe_wakeup_set")        \* .status = Ready
          /\ Do(h, JumpWith(cpus[h], "pipe_wakeup_pop", Top(h).v, 0),
                Released(DataLock(Top(h).w)),
                SetStatus(tasks, Top(h).w, "Ready"), manager)
          /\ pipe' = pipe
    /\ UNCHANGED <<interrupts, calls, pipeleft>>

\* Condvar::wait on a condvar of the pipe; the frame's w is the condvar,
\* v the current process
HartPipeCondvarWait(h) ==
    /\ \/ /\ At(h, "pipe_wait_got_process")  \* get_process().unwrap()
          /\ cpus[h].proc # 0
          /\ Do(h, JumpWith(cpus[h], "pipe_wait_lock", cpus[h].proc, Top(h).w),
                Released(CpuLock(h)), tasks, manager)
          /\ pipe' = pipe
       \/ /\ At(h, "pipe_wait_got_process")
          /\ cpus[h].proc = 0
          /\ Halt("called Option::unwrap() on a None value")
          /\ pipe' = pipe
       \/ /\ At(h, "pipe_wait_suspend")      \* .status = Suspend
          /\ Do(h, Jump(cpus[h], "pipe_wait_list"), Released(DataLock(Top(h).v)),
                SetStatus(tasks, Top(h).v, "Suspend"), manager)
          /\ pipe' = pipe
       \/ /\ At(h, "pipe_wait_push")         \* .waiting_list.push
          /\ Do(h, Return(cpus[h]), Released(PipeCondvarLock(Top(h).w)), tasks, manager)
          /\ pipe' = SetPipeList(pipe, Top(h).w,
                                 Append(PipeList(pipe, Top(h).w), Top(h).v))
    /\ UNCHANGED <<interrupts, calls, pipeleft>>

\* the user program of this study: init forks a child and reads from the
\* pipe; the child writes a byte and then reads
HartPipeSyscall(p) ==
    IF p = 1 /\ Cardinality(DOMAIN tasks) < MaxHartProcs THEN Frame("sys_clone", 0, 0)
    ELSE IF p # 1 /\ pipe.n_write = 0 THEN Frame("sys_write", 0, 0)
    ELSE Frame("sys_read", 0, 0)

\* user_trap_handler on UserEnvCall, under that program
HartPipeUserTrap(h) ==
    /\ At(h, "user")
    /\ calls < MaxHartPipeCalls
    /\ calls' = calls + 1
    /\ Do(h, Trap(cpus[h], HartPipeSyscall(cpus[h].on)), locks, tasks, manager)
    /\ UNCHANGED <<interrupts, kernelvars>>

NextHartsPipe ==
    \/ \E h \in Harts : SpinlockLock(h)
    \/ \E h \in Harts : HartPipeUserTrap(h)
    \/ \E h \in Harts : HartWorker(h)
    \/ \E h \in Harts : HartScheduler(h)
    \/ \E h \in Harts : HartUserTrapReturner(h)
    \/ \E h \in Harts : HartDoYield(h)
    \/ \E h \in Harts : HartTimerHandler(h)
    \/ \E h \in Harts : HartTimerInterrupt(h)
    \/ \E h \in Harts : HartKernelTrapReturn(h)
    \/ \E h \in Harts : HartClone(h)
    \/ \E h \in Harts : HartPipeRead(h)
    \/ \E h \in Harts : HartPipeWrite(h)
    \/ \E h \in Harts : HartPipeCondvarWakeup(h)
    \/ \E h \in Harts : HartPipeCondvarWait(h)

SpecHartsPipe == InitPipe /\ [][NextHartsPipe]_vars

-----------------------------------------------------------------------------
(* The locks held at a context switch, checked under SpecHarts and
   SpecHartsPipe *)

\* hart h is about to run context_switch, in worker or in _do_yield
AtContextSwitch(h) ==
    /\ cpus[h].stack # << >>
    /\ Top(h).pc \in {"worker_switch", "context_switch"}

\* C24: whenever a hart is about to run context_switch, in worker or in
\* _do_yield, the kernel stack it is on holds no spinlock: not the manager's
\* lock, not a process's data lock, not the pipe buffer's lock and not a
\* condvar's lock.  This includes the do_yield the timer handler calls when
\* the interrupt arrives in the middle of a system call.
C24_NoLockAcrossSwitch ==
    \A h \in Harts : (Alone(h) /\ AtContextSwitch(h)) => HeldBy(h) = {}

-----------------------------------------------------------------------------
(* The timer handler and the mode the interrupt came from, checked under
   SpecHarts *)

\* the code of do_yield and _do_yield
YieldCode ==
    {"do_yield", "do_yield_got_process", "do_yield_lock", "yield_process",
     "_do_yield", "_do_yield_set_process", "context_switch", "_do_yield_resumed"}

\* on this stack the timer handler of kernel_trap_handler, which interrupted
\* kernel code, went on into do_yield
YieldsFromSMode(stack) ==
    \E i \in 1..(Len(stack) - 1) :
        /\ stack[i].pc = "kernel_trap_return"
        /\ stack[i + 1].pc \in YieldCode

\* C25: the timer handler yields the current process only when the interrupt
\* was taken from U-mode.  A timer interrupt taken in S-mode, during a system
\* call, sets the next trigger and wakes the timer condvar, and does not call
\* do_yield: the process is not switched out.
C25_TimerYieldsFromUModeOnly ==
    \A h \in Harts : ~YieldsFromSMode(cpus[h].stack)

-----------------------------------------------------------------------------
(* The two assertions on Arc::strong_count, checked under SpecHarts *)

\* hart h is in wait_for behind process_list.remove(pid) of child c, at
\* the assertion on the child's strong count
Reaps(h, c) ==
    /\ cpus[h].stack # << >>
    /\ Top(h).pc = "wait_child_assert"
    /\ Top(h).w = c

\* C26: when wait_for reaps a zombie child, no hart has that child as its
\* current process any more, and the only strong reference left is the one
\* wait_for holds: the assertion strong_count(child) = 1 holds, however the
\* reaping interleaves with the child's exit and do_yield on another hart.
C26_ReapedChildIsUnreferenced ==
    /\ panic # "Still someone holding child..."
    /\ \A h \in Harts : \A c \in DOMAIN tasks :
          Reaps(h, c) => /\ \A g \in Harts : cpus[g].proc # c
                         /\ StrongCount(c) = 1

\* hart h is in ProcessManager::exit of process p, at the assertion on the
\* strong count
Exits(h, p) ==
    /\ cpus[h].stack # << >>
    /\ Top(h).pc = "exit_assert"
    /\ Top(h).v = p

\* C27: whenever ProcessManager::exit runs, the strong count of the exiting
\* process is exactly 3 (process_list, CPU.proc of its hart and the argument
\* of exit), however the call interleaves with the scheduler and wait_for on
\* other harts: the assertion at the head of exit never fails.
C27_ExitSeesThreeReferences ==
    /\ panic # "There is some other holding process' strong ref."
    /\ \A h \in Harts : \A p \in DOMAIN tasks : Exits(h, p) => StrongCount(p) = 3

-----------------------------------------------------------------------------
(* Zombie as the last status of a process, checked under SpecHarts *)

\* the step leaves every Zombie a Zombie
ZombieStays ==
    \A p \in DOMAIN tasks : tasks[p].status = "Zombie" => tasks'[p].status = "Zombie"

\* the step does not give a worker a Zombie as the result of scheduler()
NoZombieSelected ==
    \A h \in Harts : \A p \in DOMAIN tasks :
        (~Selected(h, p) /\ Selected(h, p)')
            => (tasks[p].status # "Zombie" /\ tasks'[p].status # "Zombie")

\* the step does not put a hart on the kernel stack of a Zombie
NoSwitchIntoZombie ==
    \A h \in Harts :
        (cpus'[h].on # cpus[h].on /\ cpus'[h].on \in DOMAIN tasks)
            => tasks[cpus'[h].on].status # "Zombie"

-----------------------------------------------------------------------------
(* The interrupt bracket of a hart: CPU::push_interrupt and
   CPU::pop_interrupt.  An open bracket is an activation on the hart's
   stack; its v is the depth and its w the sstatus.SIE (1 or 0) the hart had
   when the bracket was opened *)

SieBit(b) == IF b THEN 1 ELSE 0

\* CPU::pop_interrupt that turns interrupts on whenever the depth is back at 0
PopInterruptEnables(c) ==
    [c EXCEPT !.trap_info = <<@[1] - 1, @[2]>>,
              !.sie = IF c.trap_info[1] - 1 = 0 THEN TRUE ELSE @]

\* CPU::pop_interrupt behind its two assertions
PopInterrupt(c) ==
    [c EXCEPT !.trap_info = <<@[1] - 1, @[2]>>,
              !.sie = IF c.trap_info[1] - 1 = 0 /\ c.trap_info[2] THEN TRUE ELSE @]

\* CPU::push_interrupt
PushInterrupt(c) ==
    [c EXCEPT !.sie = FALSE,
              !.trap_info = <<@[1] + 1, IF @[1] = 0 THEN c.sie ELSE @[2]>>]

\* the activation that stands for a bracket opened by code at pc
Bracket(c, pc) == Frame(pc, c.trap_info[1], SieBit(c.sie))

OpenBracket(c, pc) == [c EXCEPT !.stack = Append(@, Bracket(c, pc))]

\* enable_trap or disable_trap, called by code that has no bracket open
HartSetSie(h, b) ==
    /\ panic = ""
    /\ cpus[h].trap_info[1] = 0
    /\ cpus[h].sie # b
    /\ Do(h, [cpus[h] EXCEPT !.sie = b], locks, tasks, manager)
    /\ UNCHANGED <<interrupts, calls, kernelvars>>

HartPushInterrupt(h) ==
    /\ panic = ""
    /\ cpus[h].trap_info[1] < MaxIntrDepth
    /\ Do(h, PushInterrupt(OpenBracket(cpus[h], "push_interrupt")), locks, tasks, manager)
    /\ UNCHANGED <<interrupts, calls, kernelvars>>

\* pop_interrupt, called to close the innermost open bracket, or called
\* with no bracket open
HartPopInterrupt(h) ==
    /\ panic = ""
    /\ IF cpus[h].sie
       THEN Halt("Pop interrupt with no interrupt disabled.")
       ELSE IF cpus[h].trap_info[1] = 0
       THEN Halt("Trap depth is 0")
       ELSE Do(h, PopInterrupt(Return(cpus[h])), locks, tasks, manager)
    /\ UNCHANGED <<interrupts, calls, kernelvars>>

NextIntr ==
    \/ \E h \in Harts, b \in BOOLEAN : HartSetSie(h, b)
    \/ \E h \in Harts : HartPushInterrupt(h)
    \/ \E h \in Harts : HartPopInterrupt(h)

SpecIntr == Init /\ [][NextIntr]_vars

\* the depth of hart h's bracket
Depth(h) == cpus[h].trap_info[1]

\* sstatus.SIE of hart h before its outermost open bracket
SieBefore(h) == cpus[h].stack[2].w = 1

\* the step closes the outermost bracket of hart h
ClosesOutermost(h) == Depth(h) = 1 /\ Depth(h)' = 0

\* the step is a pop_interrupt of hart h whose assertion fails
PopFails(h) ==
    /\ panic = "" /\ panic' # ""
    /\ cpus[h].sie \/ Depth(h) = 0

\* C30: for every properly nested sequence of push_interrupt and
\* pop_interrupt on a hart that starts at depth 0, sstatus.SIE is clear
\* whenever the depth is above 0, and when the depth is back at 0 SIE is what
\* it was before the outermost push.  A pop_interrupt at depth 0, or with SIE
\* set, fails its assertion and leaves the depth as it was.
C30_BracketRestoresSie ==
    [][\A h \in Harts :
          /\ (Depth(h) > 0 => ~cpus[h].sie) /\ (Depth(h)' > 0 => ~cpus'[h].sie)
          /\ ClosesOutermost(h) => cpus'[h].sie = SieBefore(h)
          /\ Depth(h)' < Depth(h) => (Depth(h) > 0 /\ ~cpus[h].sie /\ panic' = "")
          /\ PopFails(h) => Depth(h)' = Depth(h)]_vars

\* a hart that had interrupts on has opened a bracket and closed it again,
\* and has them on
C30_Witness ==
    \E h \in Harts :
        /\ panic = ""
        /\ Depth(h) = 0
        /\ cpus[h].sie
        /\ cpus[h].trap_info[2]

-----------------------------------------------------------------------------
(* InterruptSafeCell and Intrlock: the guards that open a bracket.  Cell h
   is an InterruptSafeCell that hart h uses on its own, cell 0 the data of
   an Intrlock that the harts share; locks holds the borrow of each RefCell
   and the flag of the Intrlock *)

IntrlockLock == <<"intrlock", 0>>
RefCellBorrow(k) == <<"refcell", k>>

\* InterruptSafeCell::get on cell k by code at pc: push_interrupt(), then
\* RefCell::borrow_mut, which panics on a cell that is borrowed
CellGet(h, k, pc, l) ==
    /\ cpus' = [cpus EXCEPT ![h] = PushInterrupt(OpenBracket(cpus[h], pc))]
    /\ locks' = [l EXCEPT ![RefCellBorrow(k)] = IF @ = 0 THEN cpus[h].on ELSE @]
    /\ panic' = IF l[RefCellBorrow(k)] = 0 THEN "" ELSE "already borrowed: BorrowMutError"
    /\ UNCHANGED <<tasks, manager>>

\* Drop for InterruptSafeRefMut of cell k: the body of drop, then the RefMut
\* gives the borrow back
RefMutDrop(c) == PushInterrupt(Return(c))

HartCellGet(h) ==
    /\ panic = ""
    /\ cpus[h].trap_info[1] + 2 <= MaxIntrDepth
    /\ CellGet(h, h, "InterruptSafeRefMut", locks)
    /\ UNCHANGED <<interrupts, calls, kernelvars>>

HartRefMutDrop(h) ==
    /\ At(h, "InterruptSafeRefMut")
    /\ Do(h, RefMutDrop(cpus[h]), Released(RefCellBorrow(h)), tasks, manager)
    /\ UNCHANGED <<interrupts, calls, kernelvars>>

\* Intrlock::lock: compare_exchange(false, true) succeeds on a free lock
\* only, then IntrlockGuard::new(self, self.data.get())
HartIntrlockLock(h) ==
    /\ panic = ""
    /\ cpus[h].trap_info[1] + 2 <= MaxIntrDepth
    /\ locks[IntrlockLock] = 0
    /\ CellGet(h, 0, "IntrlockGuard", [locks EXCEPT ![IntrlockLock] = cpus[h].on])
    /\ UNCHANGED <<interrupts, calls, kernelvars>>

\* Drop for IntrlockGuard: self.lock.unlock(), then the field data drops
HartIntrlockGuardDrop(h) ==
    /\ At(h, "IntrlockGuard")
    /\ Do(h, RefMutDrop(cpus[h]),
          [Released(RefCellBorrow(0)) EXCEPT ![IntrlockLock] = 0], tasks, manager)
    /\ UNCHANGED <<interrupts, calls, kernelvars>>

NextCell ==
    \/ \E h \in Harts, b \in BOOLEAN : HartSetSie(h, b)
    \/ \E h \in Harts : HartCellGet(h)
    \/ \E h \in Harts : HartRefMutDrop(h)
    \/ \E h \in Harts : HartIntrlockLock(h)
    \/ \E h \in Harts : HartIntrlockGuardDrop(h)

SpecCell == Init /\ [][NextCell]_vars

Guards == {"InterruptSafeRefMut", "IntrlockGuard"}

\* hart h holds a guard
HoldsGuard(h) == \E i \in DOMAIN cpus[h].stack : cpus[h].stack[i].pc \in Guards

\* the step gives hart h a guard, and the step drops hart h's newest guard
TakesGuard(h) ==
    /\ Len(cpus'[h].stack) = Len(cpus[h].stack) + 1
    /\ cpus'[h].stack[Len(cpus'[h].stack)].pc \in Guards

DropsGuard(h) ==
    /\ Len(cpus'[h].stack) = Len(cpus[h].stack) - 1
    /\ Top(h).pc \in Guards

\* C29: every acquisition of an InterruptSafeCell reference or of an Intrlock
\* guard is a balanced bracket of push_interrupt and pop_interrupt:
\* interrupts are off on the hart while the guard lives, and when the guard
\* is dropped the depth is what it was before the acquisition and
\* sstatus.SIE is restored.
C29_GuardsAreBalancedBrackets ==
    [][\A h \in Harts :
          /\ TakesGuard(h) => (Depth(h)' = Depth(h) + 1 /\ ~cpus'[h].sie)
          /\ HoldsGuard(h) => ~cpus[h].sie
          /\ DropsGuard(h) => (Depth(h)' = Top(h).v /\ cpus'[h].sie = (Top(h).w = 1))]_vars

-----------------------------------------------------------------------------
(* The harts that run a process.  picks is the history of first schedulings:
   one record for each process, written when a worker switches into the
   process for the first time *)

\* the step is the context_switch of hart h's worker into process p
SwitchesInto(h, p) ==
    /\ At(h, "worker_switch")
    /\ Top(h).v = p
    /\ cpus'[h].on # cpus[h].on

\* the harts recorded as the first to run process p
FirstHarts(p) == {picks[i].hart : i \in {j \in DOMAIN picks : picks[j].pid = p}}

RecordPick(h) ==
    IF At(h, "worker_switch") /\ FirstHarts(Top(h).v) = {}
    THEN Append(picks, [pid |-> Top(h).v, hart |-> h])
    ELSE picks

\* worker, with the history kept
HartWorkerRecorded(h) ==
    /\ WorkerLoop(h)
    /\ picks' = RecordPick(h)
    /\ UNCHANGED <<interrupts, calls, process_list, previous_scheduled_pid, cpu_proc,
                   PID_ALLOCATOR, PAGE_ALLOCATOR, nfiles, pipe, written, delivered,
                   timer, phys, spawned>>

NextMigrate ==
    \/ \E h \in Harts : SpinlockLock(h)
    \/ \E h \in Harts : HartUserTrap(h)
    \/ \E h \in Harts : HartWorkerRecorded(h)
    \/ \E h \in Harts : HartScheduler(h)
    \/ \E h \in Harts : HartUserTrapReturner(h)
    \/ \E h \in Harts : HartDoYield(h)
    \/ \E h \in Harts : HartTimerHandler(h)
    \/ \E h \in Harts : HartTimerInterrupt(h)
    \/ \E h \in Harts : HartKernelTrapReturn(h)
    \/ \E h \in Harts : HartClone(h)
    \/ \E h \in Harts : HartCondvarWakeup(h)
    \/ \E h \in Harts : HartCondvarWait(h)
    \/ \E h \in Harts : HartExit(h)
    \/ \E h \in Harts : HartWaitFor(h)

SpecMigrate == Init /\ [][NextMigrate]_vars

\* C31: there is no migration between harts: once a worker has switched into
\* a process on some hart, every later switch into that process is made by
\* the worker of the same hart.
C31_NoMigration ==
    [][\A h \in Harts : \A p \in DOMAIN tasks :
          SwitchesInto(h, p) => FirstHarts(p) \subseteq {h}]_vars

-----------------------------------------------------------------------------
(* Claims on the break's floor *)

\* brk >= min_brk >= prog_end in the memory of every process
BrkAboveFloor ==
    \A p \in DOMAIN process_list :
        /\ process_list[p].memory.brk >= process_list[p].memory.min_brk
        /\ process_list[p].memory.min_brk >= process_list[p].memory.prog_end

\* the child of a fork has the floor of its parent
ForkKeepsFloor ==
    \A p \in DOMAIN process_list : \A child \in 1..MaxMemProcs :
        (spawned < MaxMemProcs /\ ForkedBy(p, child))
        => /\ process_list'[child].memory.min_brk = process_list[p].memory.min_brk
           /\ process_list'[child].memory.min_brk >= process_list'[child].memory.prog_end

\* a brk below the floor is rejected: it returns the break, which stays
BrkBelowFloorRejected ==
    \A p \in DOMAIN process_list : \A addr \in BrkArgs(process_list[p].memory) :
        (addr < process_list[p].memory.prog_end /\ Brk(p, U0, addr))
        => /\ panic' = ""
           /\ process_list'[p].memory.brk = process_list[p].memory.brk
           /\ process_list'[p].trap_context.reg[TrapContext_a0]
                 = process_list[p].memory.brk

\* C32: in every reachable state of every process brk >= min_brk >= prog_end;
\* a child created by fork has the min_brk of its parent, so that a brk
\* request below that floor is rejected and leaves the break unchanged.
C32_BrkFloor ==
    /\ []BrkAboveFloor
    /\ [][ForkKeepsFloor]_vars
    /\ [][BrkBelowFloorRejected]_vars

-----------------------------------------------------------------------------
(* Claims on the maps and the page table *)

UserFlags == {"R", "W", "X", "U"}

\* the leaf PTE of page vpn in mem is valid, points to the frame the maps'
\* entry owns and carries the entry's flags
PteOfEntry(mem, vpn) ==
    /\ "V" \in mem.page_table.ptes[vpn][2]
    /\ mem.page_table.ptes[vpn][1] = mem.maps[vpn][1]
    /\ mem.page_table.ptes[vpn][2] \cap UserFlags = mem.maps[vpn][2] \cap UserFlags

\* C33: after any sequence of operations of ProcessMemory a user page has a
\* valid leaf PTE in the process's page table if and only if it has an entry
\* in the maps, and the PTE points to the frame the entry owns and carries the
\* entry's R, W, X and U flags.
C33_MapsMatchPageTable ==
    \A p \in DOMAIN process_list :
        /\ DOMAIN process_list[p].memory.page_table.ptes = DOMAIN process_list[p].memory.maps
        /\ \A vpn \in DOMAIN process_list[p].memory.maps :
              PteOfEntry(process_list[p].memory, vpn)

\* a process of a fork that has kept the lower page of a two page mmap and
\* not the upper (munmap took it), and that maps a read-only page
C33_Witness ==
    \E p \in DOMAIN process_list :
        /\ process_list[p].parent # None
        /\ IsMapped(process_list[p].memory, process_list[p].memory.mmap_base - 2)
        /\ ~IsMapped(process_list[p].memory, process_list[p].memory.mmap_base - 1)
        /\ \E vpn \in DOMAIN process_list[p].memory.maps :
              process_list[p].memory.maps[vpn][2] = {"U", "R"}

-----------------------------------------------------------------------------
(* PageTable::map, unmap and translate, called on the page table of init.
   picks is the history of the calls *)

\* PageTable::find_pte: None when an interior entry is not valid, else the
\* leaf entry, which is PageTableEntry::empty() where nothing was stored
FindPte(pt, vpn) ==
    IF <<Idx0(vpn)>> \in DOMAIN pt.tables /\ <<Idx0(vpn), Idx1(vpn)>> \in DOMAIN pt.tables
    THEN Some(IF vpn \in DOMAIN pt.ptes THEN pt.ptes[vpn] ELSE <<0, {}>>)
    ELSE None

\* a walk that allocates the interior tables it misses, as find_pte_create
FindPteAllocating(used, pt, vpn) ==
    Bind(FindPteCreate(used, pt, vpn), LAMBDA s :
         [used |-> s.used, pt |-> s.pt, pte |-> FindPte(s.pt, vpn)])

\* the walk of translate and unmap: find_pte, which only reads
FindPteWalk(used, pt, vpn) == [used |-> used, pt |-> pt, pte |-> FindPte(pt, vpn)]

\* PageTable::translate
PageTableTranslate(pt, va) ==
    Bind(FindPte(pt, VirtPageIdFrom(va)), LAMBDA pte :
         IF IsSome(pte) /\ "V" \in Unwrap(pte)[2]
         THEN Some(Unwrap(pte)[1] * PAGE_SIZE + (va - (va \div PAGE_SIZE) * PAGE_SIZE))
         ELSE None)

\* the pages of the study: mapped at boot (the image, the stack), not mapped
\* in a leaf table that exists, and with no leaf table
PtPages ==
    InitImagePages
        \cup {PROCESS_USER_STACK_BASE_PAGE - 1}
        \cup {p + 1 : p \in InitImagePages}
        \cup {p + 512 : p \in InitImagePages}

\* page aligned physical addresses, as frame numbers
PtFrames == {TotalFrames + 1, TotalFrames + 2}

PtAddrs == {vpn * PAGE_SIZE + off : vpn \in PtPages, off \in {0, 8, PAGE_SIZE - 1}}

PtCall(op, at, frame, ret) == [op |-> op, at |-> at, frame |-> frame, ret |-> ret]

PtDone(used, pt, call) ==
    /\ PAGE_ALLOCATOR' = used
    /\ process_list' = [process_list EXCEPT ![1].memory.page_table = pt]
    /\ picks' = Append(picks, call)
    /\ UNCHANGED <<hartvars, previous_scheduled_pid, cpu_proc, PID_ALLOCATOR, nfiles,
                   pipe, written, delivered, timer, phys, calls, spawned>>

\* PageTable::map(va, pa, flags)
PtMap(vpn, frame, flags) ==
    /\ panic = ""
    /\ Len(picks) < MaxPtCalls
    /\ \E s \in {FindPteCreate(PAGE_ALLOCATOR, process_list[1].memory.page_table, vpn)} :
          IF vpn \in DOMAIN s.pt.ptes
          THEN /\ panic' = "is already mapped"
               /\ PtDone(s.used, s.pt, PtCall("panic", vpn, frame, None))
          ELSE /\ panic' = ""
               /\ PtDone(s.used,
                         [s.pt EXCEPT !.ptes = (vpn :> <<frame, PrepareFlags(flags)>>) @@ @],
                         PtCall("map", vpn, frame, None))

\* PageTable::unmap(va)
PtUnmap(vpn) ==
    /\ panic = ""
    /\ Len(picks) < MaxPtCalls
    /\ \E s \in {FindPteWalk(PAGE_ALLOCATOR, process_list[1].memory.page_table, vpn)} :
          IF ~IsSome(s.pte)
          THEN /\ panic' = "called Option::unwrap() on a None value"
               /\ PtDone(s.used, s.pt, PtCall("panic", vpn, 0, None))
          ELSE IF "V" \notin Unwrap(s.pte)[2]
          THEN /\ panic' = "is not mapped."
               /\ PtDone(s.used, s.pt, PtCall("panic", vpn, 0, None))
          ELSE /\ panic' = ""
               /\ PtDone(s.used,
                         [s.pt EXCEPT !.ptes = [v \in DOMAIN @ \ {vpn} |-> @[v]]],
                         PtCall("unmap", vpn, 0, None))

\* PageTable::translate(va): the walk, then the result
PtTranslate(va) ==
    /\ panic = ""
    /\ Len(picks) < MaxPtCalls
    /\ panic' = ""
    /\ \E s \in {FindPteWalk(PAGE_ALLOCATOR, process_list[1].memory.page_table,
                             VirtPageIdFrom(va))} :
          PtDone(s.used, s.pt, PtCall("translate", va, 0, PageTableTranslate(s.pt, va)))

NextPt ==
    \/ \E vpn \in PtPages, frame \in PtFrames : PtMap(vpn, frame, {"U", "R", "W"})
    \/ \E vpn \in PtPages : PtUnmap(vpn)
    \/ \E va \in PtAddrs : PtTranslate(va)

SpecPt == Init /\ [][NextPt]_vars

\* the frame page vpn is mapped to after the calls of h: that of the last map
\* of vpn, if no unmap of vpn came after it; before any call, that of boot
RECURSIVE MappedTo(_, _)
MappedTo(h, vpn) ==
    IF h = << >>
    THEN IF vpn \in DOMAIN Boot.table[1].memory.maps
         THEN Some(Boot.table[1].memory.maps[vpn][1]) ELSE None
    ELSE IF h[Len(h)].op = "map" /\ h[Len(h)].at = vpn THEN Some(h[Len(h)].frame)
    ELSE IF h[Len(h)].op = "unmap" /\ h[Len(h)].at = vpn THEN None
    ELSE MappedTo(SubSeq(h, 1, Len(h) - 1), vpn)

\* what translate(va) is to return after the calls of h
Translation(h, va) ==
    IF IsSome(MappedTo(h, VirtPageIdFrom(va)))
    THEN Some(Unwrap(MappedTo(h, VirtPageIdFrom(va))) * PAGE_SIZE + (va % PAGE_SIZE))
    ELSE None

\* C34: after any sequence of map and unmap calls on 4 KiB pages,
\* translate(va) returns Some(pa + (va mod 4096)) exactly when va's page is
\* mapped to the page aligned pa (mapped and not unmapped since), and None
\* when the page was never mapped or has been unmapped; translate never
\* allocates an interior table and changes no entry.
C34_TranslateFollowsMapUnmap ==
    /\ [](\A va \in PtAddrs :
             PageTableTranslate(process_list[1].memory.page_table, va)
                = Translation(picks, va))
    /\ [](\A i \in DOMAIN picks :
             picks[i].op = "translate"
             => picks[i].ret = Translation(SubSeq(picks, 1, i - 1), picks[i].at))
    /\ [][\A va \in PtAddrs :
             PtTranslate(va) => /\ PAGE_ALLOCATOR' = PAGE_ALLOCATOR
                                /\ process_list' = process_list]_vars

\* a page was mapped, unmapped and mapped to another frame, and a translate
\* of an address inside it returned the second frame's address
C34_Witness ==
    /\ panic = ""
    /\ Len(picks) = 4
    /\ picks[1].op = "map" /\ picks[2].op = "unmap" /\ picks[3].op = "map"
    /\ picks[2].at = picks[1].at /\ picks[3].at = picks[1].at
    /\ picks[3].frame # picks[1].frame
    /\ picks[4].op = "translate"
    /\ picks[4].at = picks[1].at * PAGE_SIZE + 8
    /\ picks[4].ret = Some(picks[3].frame * PAGE_SIZE + 8)

-----------------------------------------------------------------------------
(* Claims on the kernel stack pointer *)

\* one past the last byte of the kernel stack allocation of process p
KernelStackEnd(p) == (process_list[p].kernel_stack + PROCESS_KERNEL_STACK_SIZE) * PAGE_SIZE

\* the frames of the kernel stack of process p
KernelStackFrames(p) ==
    process_list[p].kernel_stack..(process_list[p].kernel_stack + PROCESS_KERNEL_STACK_SIZE - 1)

\* C35: for every process, kernel_sp in its TrapContext and sp in its initial
\* TaskContext are the address one past the last byte of its own kernel stack
\* allocation (address of kernel_stack[0] + PROCESS_KERNEL_STACK_SIZE * 4096),
\* so that the page just below kernel_sp is a frame of that allocation.
C35_KernelSpIsStackEnd ==
    \A p \in DOMAIN process_list :
        /\ process_list[p].trap_context.kernel_sp = KernelStackEnd(p)
        /\ process_list[p].kernel_task_context.sp = KernelStackEnd(p)
        /\ (process_list[p].trap_context.kernel_sp \div PAGE_SIZE) - 1 \in KernelStackFrames(p)

-----------------------------------------------------------------------------
(* Frames that come back: fork, exit, wait4 and mmap *)

NextFrames ==
    \/ Worker(FALSE)
    \/ \E p \in DOMAIN process_list : ReturnToUser(p)
    \/ \E p \in DOMAIN process_list : spawned < MaxFrameProcs /\ Clone(p, U0, 0)
    \/ \E p \in DOMAIN process_list, code \in ExitCodes : Exit(p, U0, code)
    \/ \E p \in DOMAIN process_list : Wait4(p, U0, -1, 0)
    \/ \E p \in DOMAIN process_list : WaitForRetry(p)
    \/ \E p \in DOMAIN process_list :
          \E pages \in 1..2 : Mmap(p, U0, 0, pages, {"R", "W"}, FALSE)

SpecFrames == Init /\ [][NextFrames]_vars

\* the frames the step hands out
HandedOut ==
    UNION {iv[1]..(iv[1] + iv[2] - 1) : iv \in PAGE_ALLOCATOR' \ PAGE_ALLOCATOR}

\* the frames copy_from fills for the child the step creates: each is
\* cleared by PhyPage::alloc, then takes the content of the parent's page
CopiedFrames ==
    UNION {UserFrames(process_list'[c].memory) :
              c \in DOMAIN process_list' \ DOMAIN process_list}

\* C36: every frame handed out as a PhyPage, by PhyPage::alloc or by
\* PhyPage::alloc_many (the kernel stack of a process), is zero-filled when
\* the handle is created, a frame that another owner used and freed included.
C36_FramesHandedOutAreZero ==
    [][\A f \in HandedOut \ CopiedFrames : Content(phys', f) = 0]_vars

-----------------------------------------------------------------------------
(* Pids: creations, reaps and calls of RecycleAllocator::free *)

\* the pids of the Process objects: ProcessManager::spawn keeps each Process
\* in process_list under its pid
LivePids == DOMAIN process_list

\* the ids RecycleAllocator::free is called with outside Drop for Pid: ids
\* of which no Pid object exists
PidArgs == 1..(MaxPidProcs + 1)

\* a call of RecycleAllocator::free that no Pid object stands for
RecycleFreeCall(id) ==
    /\ panic = ""
    /\ id \notin LivePids
    /\ IF RecycleFreeAsserts(PID_ALLOCATOR, id)
       THEN /\ PID_ALLOCATOR' = RecycleFree(PID_ALLOCATOR, id)
            /\ UNCHANGED panic
       ELSE /\ panic' = IF id <= PID_ALLOCATOR.max
                        THEN "already freed."
                        ELSE "assertion failed: id <= self.max"
            /\ UNCHANGED PID_ALLOCATOR
    /\ UNCHANGED <<hartvars, phys, calls, process_list, previous_scheduled_pid, cpu_proc,
                   PAGE_ALLOCATOR, nfiles, pipe, written, delivered, picks, spawned, timer>>

NextPid ==
    \/ Worker(FALSE)
    \/ \E p \in DOMAIN process_list : ReturnToUser(p)
    \/ \E p \in DOMAIN process_list : spawned < MaxPidProcs /\ Clone(p, U0, 0)
    \/ \E p \in DOMAIN process_list, code \in ExitCodes : Exit(p, U0, code)
    \/ \E p \in DOMAIN process_list : Wait4(p, U0, -1, 0)
    \/ \E p \in DOMAIN process_list : WaitForRetry(p)
    \/ \E id \in PidArgs : RecycleFreeCall(id)

SpecPid == Init /\ [][NextPid]_vars

\* the pids of the table are positive and were issued, and the free list has no id twice and no live id
PidsInOrder ==
    /\ \A q \in DOMAIN process_list :
          /\ q >= 1
          /\ q <= PID_ALLOCATOR.max
          /\ q \notin SeqRange(PID_ALLOCATOR.free)
    /\ \A i, j \in DOMAIN PID_ALLOCATOR.free :
          PID_ALLOCATOR.free[i] = PID_ALLOCATOR.free[j] => i = j

\* a creation takes a pid no live Process has and replaces no Process of
\* the table: the id freed last when there
\* is a freed id, the next larger id otherwise
IssuesFreedFirst ==
    spawned' # spawned =>
       \E c \in DOMAIN process_list' \ DOMAIN process_list :
          /\ DOMAIN process_list' = DOMAIN process_list \cup {c}
          /\ \A q \in DOMAIN process_list :
                process_list'[q].kernel_stack = process_list[q].kernel_stack
          /\ IF PID_ALLOCATOR.free # << >>
             THEN /\ c = PID_ALLOCATOR.free[Len(PID_ALLOCATOR.free)]
                  /\ PID_ALLOCATOR'.free = SubSeq(PID_ALLOCATOR.free, 1,
                                                  Len(PID_ALLOCATOR.free) - 1)
                  /\ PID_ALLOCATOR'.max = PID_ALLOCATOR.max
             ELSE /\ c = PID_ALLOCATOR.max + 1
                  /\ PID_ALLOCATOR' = [max |-> c, free |-> << >>]

\* a reap frees the pid of the Process it drops, and nothing else
ReapFreesPid ==
    \A z \in DOMAIN process_list \ DOMAIN process_list' :
        PID_ALLOCATOR' = [PID_ALLOCATOR EXCEPT !.free = Append(@, z)]

\* free of an id that is free already or was never issued fails an assertion
FreeOfFreeIdFails ==
    \A id \in PidArgs :
        ((id > PID_ALLOCATOR.max \/ id \in SeqRange(PID_ALLOCATOR.free))
            /\ RecycleFreeCall(id))
           => (panic' # "" /\ PID_ALLOCATOR' = PID_ALLOCATOR)

\* C37: the pids of the live Process objects are pairwise distinct and at
\* least 1, a freed pid is issued again (the one freed last first) before a
\* new larger pid, the free list never holds an id twice nor the id of a live
\* process, and free of an id that is free or above max fails an assertion.
C37_PidsAreRecycledInOrder ==
    /\ []PidsInOrder
    /\ [][IssuesFreedFirst]_vars
    /\ [][ReapFreesPid]_vars
    /\ [][FreeOfFreeIdFails]_vars

\* C37 witness: two pids were freed, the one freed last was issued again
\* while the other is still free, and a free of a free id has failed
C37_Witness ==
    /\ PID_ALLOCATOR.max = 3
    /\ PID_ALLOCATOR.free = <<3>>
    /\ DOMAIN process_list = {1, 2}
    /\ spawned = 4
    /\ panic = "already freed."

-----------------------------------------------------------------------------
(* Boot: the harts enter startup.  picks is the history of their steps *)

BootHarts == 1..MaxBootHarts

\* the steps hart h has taken
BootSteps(h) == SelectSeq(picks, LAMBDA e : e.hart = h)

\* where hart h is: the name of its last step
BootAt(h) == IF BootSteps(h) = << >> THEN "entry"
             ELSE BootSteps(h)[Len(BootSteps(h))].op

\* static mut BOOT_CORE_ID: the hart of the last assignment
BOOT_CORE_ID ==
    Bind({i \in DOMAIN picks : picks[i].op = "set"}, LAMBDA sets :
         IF sets = {} THEN None ELSE Some(picks[MaxOf(sets)].hart))

BootStep(h, op, boot_core) ==
    /\ panic = ""
    /\ picks' = Append(picks, [hart |-> h, op |-> op, boot_core |-> boot_core])
    /\ UNCHANGED <<hartvars, phys, calls, process_list, previous_scheduled_pid, cpu_proc,
                   PID_ALLOCATOR, PAGE_ALLOCATOR, nfiles, panic, pipe, written, delivered,
                   spawned, timer>>

\* startup: the firmware enters the kernel on hart h, and the hart reads
\* BOOT_CORE_ID in `if let Some(_) = unsafe { BOOT_CORE_ID }`
StartupCheck(h) ==
    /\ BootAt(h) = "entry"
    /\ BootStep(h, "check", ~IsSome(BOOT_CORE_ID))

\* startup: the else branch assigns BOOT_CORE_ID and BOOT_FDT_ADDR
StartupSet(h) ==
    /\ BootAt(h) = "check"
    /\ BootSteps(h)[Len(BootSteps(h))].boot_core
    /\ BootStep(h, "set", TRUE)

\* main(core_id, false): interrupt::init
MainSlaveCore(h) ==
    /\ BootAt(h) = "check"
    /\ ~BootSteps(h)[Len(BootSteps(h))].boot_core
    /\ BootStep(h, "slave", FALSE)

\* main(core_id, true): do_init! runs the initialisation of every module
MainBootCore(h) ==
    /\ BootAt(h) = "set"
    /\ BootStep(h, "do_init", TRUE)

\* main: process::worker, which does not return
MainWorker(h) ==
    /\ BootAt(h) \in {"slave", "do_init"}
    /\ BootStep(h, "worker", BootAt(h) # "slave")

NextBoot ==
    \/ \E h \in BootHarts : StartupCheck(h)
    \/ \E h \in BootHarts : StartupSet(h)
    \/ \E h \in BootHarts : MainSlaveCore(h)
    \/ \E h \in BootHarts : MainBootCore(h)
    \/ \E h \in BootHarts : MainWorker(h)

SpecBoot == Init /\ [][NextBoot]_vars

\* the harts main was or will be called on with boot_core = true
BootCores == {h \in BootHarts : \E i \in DOMAIN picks :
                 picks[i].hart = h /\ picks[i].op = "check" /\ picks[i].boot_core}

\* the harts that ran the global initialisation
GlobalInitCores == {h \in BootHarts : \E i \in DOMAIN picks :
                       picks[i].hart = h /\ picks[i].op = "do_init"}

\* C38: exactly one hart becomes the boot hart, for every order in which the
\* harts enter startup: only the first hart to arrive runs the global
\* initialisation, every other hart runs interrupt::init and the scheduler
\* loop only.
C38_ExactlyOneBootHart ==
    /\ Cardinality(BootCores) <= 1
    /\ Cardinality(GlobalInitCores) <= 1
    /\ picks # << >> => BootCores = {picks[1].hart}
    /\ GlobalInitCores \subseteq BootCores
    /\ \A h \in BootHarts \ BootCores :
          \A i \in DOMAIN BootSteps(h) :
              BootSteps(h)[i].op \in {"check", "slave", "worker"}

-----------------------------------------------------------------------------
(* The user stack near PROCESS_MAX_USER_STACK_SIZE *)

\* a store page fault in the page below stack_top, which grows the stack,
\* and the munmap of the page it mapped
StackRound(s) ==
    Bind(AllocStackIfPossible(s.used, s.mem, s.mem.stack_top - 1), LAMBDA g :
         MemoryUnmap(g.used, g.mem, g.mem.stack_top))

\* the leaf table of page vpn is in the page table
HasLeafTable(mem, vpn) == <<Idx0(vpn), Idx1(vpn)>> \in DOMAIN mem.page_table.tables

\* the rounds, k at most, that stay in the leaf table of the page below
\* stack_top
RoundsInTable(mem, k) == MinOf({k, ((mem.stack_top - 1) % 512) + 1})

\* what the k >= 1 rounds of one leaf table leave.  A round in a page whose
\* leaf table exists allocates a frame, maps it, unmaps it and frees it: only
\* stack_top changes, so these rounds are taken at once.
TableRounds(s, k) ==
    IF HasLeafTable(s.mem, s.mem.stack_top - 1)
    THEN [s EXCEPT !.mem.stack_top = @ - k]
    ELSE [StackRound(s) EXCEPT !.mem.stack_top = @ - (k - 1)]

\* what k rounds leave
RECURSIVE StackRounds(_, _)
StackRounds(s, k) ==
    IF k = 0 THEN s
    ELSE IF k = RoundsInTable(s.mem, k) THEN TableRounds(s, k)
    ELSE StackRounds(StackRounds(s, k \div 2), k - (k \div 2))

\* the rounds init has made when the study starts
StackStarts == {0, PROCESS_MAX_USER_STACK_PAGES - MaxStackPages,
                PROCESS_MAX_USER_STACK_PAGES - 1}

InitStack ==
    /\ HartsInit
    /\ \E k \in StackStarts :
          \E s \in {StackRounds([used |-> Boot.used, mem |-> Boot.table[1].memory], k)} :
             /\ process_list = [Boot.table EXCEPT ![1].memory = s.mem]
             /\ PAGE_ALLOCATOR = s.used
    /\ PID_ALLOCATOR = Boot.pids
    /\ previous_scheduled_pid = 0
    /\ cpu_proc = None
    /\ nfiles = 0
    /\ panic = ""
    /\ timer = TimerInit
    /\ phys = Boot.phys
    /\ calls = 0
    /\ spawned = 1
    /\ NoPipe
    /\ picks = << >>

StackFaultPages(mem) == {mem.stack_top - 1, mem.stack_top - 2}

StackMunmapPages(mem) == {mem.stack_top, mem.mmap_base - 1}

NextStack ==
    \/ Worker(FALSE)
    \/ \E p \in DOMAIN process_list : ReturnToUser(p)
    \/ \E p \in DOMAIN process_list : TimerYield(p)
    \/ \E p \in DOMAIN process_list :
          \E vpn \in StackFaultPages(process_list[p].memory) : PageFaultTrap(p, U0, vpn)
    \/ \E p \in DOMAIN process_list :
          \E vpn \in StackMunmapPages(process_list[p].memory) : Munmap(p, U0, vpn, 1)
    \/ \E p \in DOMAIN process_list :
          \E pages \in 1..2 : Mmap(p, U0, 0, pages, {"R", "W"}, FALSE)

SpecStack == InitStack /\ [][NextStack]_vars

\* the rounds taken at once leave what the rounds taken one by one leave, in
\* every state of the study whose next two pages below the stack are free
StackRoundsAgree ==
    \A p \in DOMAIN process_list :
        \E s \in {[used |-> PAGE_ALLOCATOR, mem |-> process_list[p].memory]} :
           (~IsMapped(s.mem, s.mem.stack_top - 1) /\ ~IsMapped(s.mem, s.mem.stack_top - 2))
              => /\ StackRounds(s, 2) = StackRound(StackRound(s))
                 /\ StackRounds(s, 1) = StackRound(s)

\* C39: stack_top is never below mmap_base nor above stack_base: the growth
\* of the stack by page faults stops when the stack has
\* PROCESS_MAX_USER_STACK_SIZE bytes, and no page of the stack is in the
\* region below mmap_base, where mmap allocates.
C39_StackStaysAboveMmapBase ==
    \A p \in DOMAIN process_list :
        /\ process_list[p].memory.stack_top >= process_list[p].memory.mmap_base
        /\ process_list[p].memory.stack_top <= process_list[p].memory.stack_base
        /\ process_list[p].memory.stack_base - process_list[p].memory.stack_top
              <= PROCESS_MAX_USER_STACK_PAGES

-----------------------------------------------------------------------------
(* execve with arguments: what it pushes on the user stack *)

\* the lengths of the strings of the study: short ones, and ones that fill
\* half a page and most of a page
ArgLens == {0, 5, 2000, 4000}

\* argv and env of the study, by the lengths of their strings
ArgTables == UNION {[1..n -> ArgLens] : n \in 0..MaxArgs}

NextExec ==
    \/ Worker(FALSE)
    \/ \E p \in DOMAIN process_list : ReturnToUser(p)
    \/ \E p \in DOMAIN process_list : TimerYield(p)
    \/ \E p \in DOMAIN process_list :
          \E found \in BOOLEAN, argv \in ArgTables, env \in ArgTables :
             ExecveArgs(p, U0, found, argv, env)

SpecExec == Init /\ [][NextExec]_vars

\* the frame of the first page of the user stack of memory mem
StackFrame(mem) == mem.maps[mem.stack_base - 1][1]

\* an execve of p that found its file has returned in this step
ExecveDone(p) ==
    /\ InUser(p)
    /\ calls' = calls + 1
    /\ process_list'[p].frame.ret.ok

\* C40: execve writes the strings of env and argv, the aux table, the envp
\* and argv tables and argc only inside the first page of the new user
\* stack, for every argv and env: every frame it writes to is the frame
\* mapped at [stack_base - 4096, stack_base), and the final user sp is a
\* multiple of 8 and not below stack_top.
C40_ExecveWritesInsideStackPage ==
    [][\A p \in DOMAIN process_list :
          ExecveDone(p) =>
             /\ \A f \in DOMAIN phys' :
                   phys'[f] = ArgsContent => f = StackFrame(process_list'[p].memory)
             /\ Content(phys', StackFrame(process_list'[p].memory)) = ArgsContent
             /\ process_list'[p].trap_context.reg[TrapContext_sp] % 8 = 0
             /\ process_list'[p].trap_context.reg[TrapContext_sp]
                   >= (process_list'[p].memory.stack_top
                          - process_list'[p].memory.stack_base) * PAGE_SIZE]_vars

====
